---- MODULE Spec2Model ----
(***************************************************************************)
(* A model of the DPS-150 serial driver (package dps150):                  *)
(*   - protocol.py : packet codec and the PacketBuffer stream framer       *)
(*   - transport.py: SerialTransport (write lock, connect / disconnect)    *)
(*   - device.py   : DPS150 session (setters, init sequence, poll task)    *)
(* Bytes are integers 0..255, byte strings are sequences of bytes.         *)
(***************************************************************************)
EXTENDS Integers, Sequences, FiniteSets, TLC

VARIABLES
  \* --- codec experiment (encode_packet / decode_packet as pure functions)
  cmd_in,      \* command argument of encode_packet
  type_in,     \* type_code argument of encode_packet
  data_in,     \* data argument of encode_packet
  encoded,     \* result of encode_packet (record), or NoResult
  pkt,         \* the byte string handed to decode_packet
  flip,        \* which bit of pkt was flipped after encoding, if any
  decoded,     \* result of decode_packet (record), or NoResult
  codec_pc,    \* position of the codec experiment
  \* --- framer experiment (a PacketBuffer fed from a byte stream)
  scenario,    \* what the stream is made of: [kind, noise, frame, second]
  stream,      \* bytes of the stream not yet delivered
  buffer,      \* PacketBuffer.buffer
  emitted,     \* the packets returned by all extract_packets calls so far
  \* --- the session (one DPS150 object, its transports and its tasks)
  transport,   \* DPS150.transport: 0 (None) or the index of a SerialTransport
  transports,  \* the SerialTransport objects created so far
  lock,        \* DPS150._lock: [holder, waiters]
  callbacks,   \* DPS150._callbacks: the listeners, each by what it does when called
  polling_task,\* DPS150._polling_task: "none" or a poll task
  task,        \* per task: the call it runs and where it is suspended
  state,       \* DPS150.state: the DeviceState object, field by field
  info,        \* DPS150.info: the DeviceInfo object
  last,        \* the last packet handed to _on_packet_received and what it did
  pending,     \* the chunks the device is going to send, in order
  received,    \* number of chunks the read loops have read so far
  script       \* all the chunks the device sends in this behaviour

codecVars == <<cmd_in, type_in, data_in, encoded, pkt, flip, decoded, codec_pc>>
framerVars == <<scenario, stream, buffer, emitted>>
inboundVars == <<state, info, last, pending, received, script>>
sessionVars == <<transport, transports, lock, callbacks, polling_task, task, inboundVars>>

vars == <<codecVars, framerVars, sessionVars>>

-----------------------------------------------------------------------------
(* constants.py *)

HEADER_INPUT == 240
HEADER_OUTPUT == 241
CMD_GET == 161
CMD_XXX_176 == 176
CMD_SET == 177
CMD_XXX_193 == 193
VOLTAGE_SET == 193
CURRENT_SET == 194
GROUP1_VOLTAGE_SET == 197
GROUP1_CURRENT_SET == 198
OVP == 209
OCP == 210
OPP == 211
OTP == 212
LVP == 213
BRIGHTNESS == 214
VOLUME == 215
METERING_ENABLE == 216
OUTPUT_ENABLE == 219
INPUT_VOLTAGE == 192
OUTPUT_VOLTAGE_CURRENT_POWER == 195
TEMPERATURE == 196
OUTPUT_CAPACITY == 217
OUTPUT_ENERGY == 218
PROTECTION_STATE == 220
MODE == 221
MODEL_NAME == 222
HARDWARE_VERSION == 223
FIRMWARE_VERSION == 224
UPPER_LIMIT_VOLTAGE == 226
UPPER_LIMIT_CURRENT == 227
ALL == 255
PROTECTION_STATES == <<"", "OVP", "OCP", "OPP", "OTP", "LVP", "REP">>
\* device.py, _parse_packet_data: the least payload length the ALL branch takes
AllStateLength == 139
BAUD_RATE_OPTIONS == <<9600, 19200, 38400, 57600, 115200>>

-----------------------------------------------------------------------------
(* Bounds and input domains *)

\* longest enumerated payload of the codec experiment
MaxPayload == 2
\* longest raw byte string handed to decode_packet directly
MaxRaw == 6

Byte == 0..255
IsByte(x) == x \in Byte

NoResult == [ok |-> FALSE, err |-> "none"]

\* all sequences over S of length 0..n
SeqsUpTo(S, n) == UNION {[1..k -> S] : k \in 0..n}

CodecCommands == {CMD_GET, CMD_SET, HEADER_INPUT}
CodecTypes == {0, VOLTAGE_SET, ALL}
PayloadBytes == {0, 1, 128, VOLTAGE_SET, 255}
\* the payload of SET voltage 12.0, the longest legal payload, and one too long
Float12 == <<0, 0, 64, 65>>
Payload255 == [i \in 1..255 |-> i]
Payload256 == [i \in 1..256 |-> 255]
CodecPayloads == SeqsUpTo(PayloadBytes, MaxPayload) \cup {Float12}
LongPayloads == {Payload255, Payload256}
RawBytes == {0, 1, 2, HEADER_INPUT}
RawPackets == SeqsUpTo(RawBytes, MaxRaw)

\* longest payload of a frame of the framer experiment
MaxFramePayload == 2
\* longest run of noise bytes ahead of a frame
MaxNoise == 4
FramePayloadBytes == {1, HEADER_INPUT}

\* SerialTransport objects that exist at the same time; an object that nothing
\* refers to any more gives its place to the next one created
MaxTransports == 2
\* listeners registered with on_state_update
MaxListeners == 2
\* most calls of on_state_update where the number of poll tasks is examined
MaxRegistrations == 3
Callers == {"app1", "app2"}
Pollers == {"poll1", "poll2"}
Tasks == Callers \cup Pollers
NoiseBytes == {0, 2, HEADER_INPUT}

-----------------------------------------------------------------------------
(* protocol.py: the codec *)

\* sum of s[lo..hi] (1-based), halving the range to keep the evaluation shallow
RECURSIVE SumRange(_, _, _)
SumRange(s, lo, hi) ==
  IF lo > hi THEN 0
  ELSE IF lo = hi THEN s[lo]
  ELSE LET mid == (lo + hi) \div 2
       IN SumRange(s, lo, mid) + SumRange(s, mid + 1, hi)

\* for byte in data: checksum += byte
SumBytes(s) == SumRange(s, 1, Len(s))

\* Python slice s[a:b] of a 0-indexed byte string (a, b >= 0)
Slice(s, a, b) ==
  LET hi == IF b < Len(s) THEN b ELSE Len(s)
  IN IF a >= hi THEN <<>> ELSE [i \in 1..(hi - a) |-> s[a + i]]

\* s[i] for a 0-based index i
At(s, i) == s[i + 1]

calculate_checksum_with_header(header, command, type_code, data) ==
  (header + type_code + Len(data) + SumBytes(data)) % 256


calculate_checksum(header, command, type_code, data) ==
  (type_code + Len(data) + SumBytes(data)) % 256

\* the checksum taken over every byte written so far, command included
encode_packet_sum_all(command, type_code, data) ==
  LET length == Len(data)
  IN IF ~IsByte(command) \/ ~IsByte(type_code) \/ ~IsByte(length)
     THEN [ok |-> FALSE, err |-> "ValueError", packet |-> <<>>]
     ELSE [ok |-> TRUE, err |-> "",
           packet |-> <<HEADER_OUTPUT, command, type_code, length>> \o data
                      \o <<(command + type_code + length + SumBytes(data)) % 256>>]

\* the length byte taken modulo 256 instead of being refused
encode_packet_wraps_length(command, type_code, data) ==
  LET length == Len(data) % 256
  IN IF ~IsByte(command) \/ ~IsByte(type_code)
     THEN [ok |-> FALSE, err |-> "ValueError", packet |-> <<>>]
     ELSE [ok |-> TRUE, err |-> "",
           packet |-> <<HEADER_OUTPUT, command, type_code, length>> \o data
                      \o <<calculate_checksum(HEADER_OUTPUT, command, type_code, data)>>]

\* bytearray.append raises ValueError for a value outside range(256)
encode_packet(command, type_code, data) ==
  LET length == Len(data)
  IN IF ~IsByte(command) \/ ~IsByte(type_code) \/ ~IsByte(length)
     THEN [ok |-> FALSE, err |-> "ValueError", packet |-> <<>>]
     ELSE [ok |-> TRUE, err |-> "",
           packet |-> <<HEADER_OUTPUT, command, type_code, length>> \o data
                      \o <<calculate_checksum(HEADER_OUTPUT, command, type_code, data)>>]

ProtocolError(msg) ==
  [ok |-> FALSE, err |-> "DPS150ProtocolError", msg |-> msg,
   command |-> 0, type_code |-> 0, length |-> 0, data |-> <<>>]

\* the checksum compared modulo 128: the top bit of the sum is lost
decode_packet_weak_checksum(packet) ==
  IF Len(packet) < 5 THEN ProtocolError("Packet too short")
  ELSE IF At(packet, 0) # HEADER_INPUT THEN ProtocolError("Invalid header")
  ELSE LET command == At(packet, 1)
           type_code == At(packet, 2)
           length == At(packet, 3)
       IN IF Len(packet) < 5 + length THEN ProtocolError("Packet incomplete")
          ELSE LET data == Slice(packet, 4, 4 + length)
                   checksum == At(packet, 4 + length)
                   calculated_checksum ==
                     calculate_checksum(HEADER_INPUT, command, type_code, data)
               IN IF checksum % 128 # calculated_checksum % 128
                  THEN ProtocolError("Checksum mismatch")
                  ELSE [ok |-> TRUE, err |-> "", msg |-> "", command |-> command,
                        type_code |-> type_code, length |-> length, data |-> data]

\* a frame followed by further bytes refused
decode_packet_exact_length(packet) ==
  IF Len(packet) < 5 THEN ProtocolError("Packet too short")
  ELSE IF At(packet, 0) # HEADER_INPUT THEN ProtocolError("Invalid header")
  ELSE LET command == At(packet, 1)
           type_code == At(packet, 2)
           length == At(packet, 3)
       IN IF Len(packet) # 5 + length THEN ProtocolError("Packet incomplete")
          ELSE LET data == Slice(packet, 4, 4 + length)
                   checksum == At(packet, 4 + length)
                   calculated_checksum ==
                     calculate_checksum(HEADER_INPUT, command, type_code, data)
               IN IF checksum # calculated_checksum
                  THEN ProtocolError("Checksum mismatch")
                  ELSE [ok |-> TRUE, err |-> "", msg |-> "", command |-> command,
                        type_code |-> type_code, length |-> length, data |-> data]

decode_packet(packet) ==
  IF Len(packet) < 5 THEN ProtocolError("Packet too short")
  ELSE IF At(packet, 0) # HEADER_INPUT THEN ProtocolError("Invalid header")
  ELSE LET command == At(packet, 1)
           type_code == At(packet, 2)
           length == At(packet, 3)
           expected_length == 5 + length
       IN IF Len(packet) < expected_length THEN ProtocolError("Packet incomplete")
          ELSE LET data == Slice(packet, 4, 4 + length)
                   checksum == At(packet, 4 + length)
                   calculated_checksum ==
                     calculate_checksum(HEADER_INPUT, command, type_code, data)
               IN IF checksum # calculated_checksum
                  THEN ProtocolError("Checksum mismatch")
                  ELSE [ok |-> TRUE, err |-> "", msg |-> "", command |-> command,
                        type_code |-> type_code, length |-> length, data |-> data]

-----------------------------------------------------------------------------
(* models.py and the inbound half of device.py: DeviceState, DeviceInfo,
   _parse_packet_data and _on_packet_received.

   A float is kept as the four bytes struct.unpack("<f") reads it from; an
   enum member is kept as its value; a str is kept as a sequence of character
   codes; a dict is a function from its keys. *)

\* struct.unpack("<f", ...) of four zero bytes: 0.0
Zero == <<0, 0, 0, 0>>

\* the float fields of DeviceState and the key update_from_dict reads each from
FloatKeys ==
  <<<<"inputVoltage", "input_voltage">>,
    <<"outputVoltage", "output_voltage">>,
    <<"outputCurrent", "output_current">>,
    <<"outputPower", "output_power">>,
    <<"temperature", "temperature">>,
    <<"setVoltage", "set_voltage">>,
    <<"setCurrent", "set_current">>,
    <<"group1setVoltage", "group1_set_voltage">>,
    <<"group1setCurrent", "group1_set_current">>,
    <<"group2setVoltage", "group2_set_voltage">>,
    <<"group2setCurrent", "group2_set_current">>,
    <<"group3setVoltage", "group3_set_voltage">>,
    <<"group3setCurrent", "group3_set_current">>,
    <<"group4setVoltage", "group4_set_voltage">>,
    <<"group4setCurrent", "group4_set_current">>,
    <<"group5setVoltage", "group5_set_voltage">>,
    <<"group5setCurrent", "group5_set_current">>,
    <<"group6setVoltage", "group6_set_voltage">>,
    <<"group6setCurrent", "group6_set_current">>,
    <<"overVoltageProtection", "over_voltage_protection">>,
    <<"overCurrentProtection", "over_current_protection">>,
    <<"overPowerProtection", "over_power_protection">>,
    <<"overTemperatureProtection", "over_temperature_protection">>,
    <<"lowVoltageProtection", "low_voltage_protection">>,
    <<"outputCapacity", "output_capacity">>,
    <<"outputEnergy", "output_energy">>,
    <<"upperLimitVoltage", "upper_limit_voltage">>,
    <<"upperLimitCurrent", "upper_limit_current">>>>

\* the other fields of DeviceState and their keys
OtherKeys ==
  <<<<"brightness", "brightness">>,
    <<"volume", "volume">>,
    <<"meteringClosed", "metering_closed">>,
    <<"outputClosed", "output_closed">>,
    <<"protectionState", "protection_state">>,
    <<"mode", "mode">>>>

FieldKeys == FloatKeys \o OtherKeys

FloatFields == {FloatKeys[i][2] : i \in DOMAIN FloatKeys}
StateFields == {FieldKeys[i][2] : i \in DOMAIN FieldKeys}

\* the key update_from_dict reads field f from
KeyOf(f) == FieldKeys[CHOOSE i \in DOMAIN FieldKeys : FieldKeys[i][2] = f][1]

\* ProtectionState.from_string: the member with that value, NORMAL ("") otherwise
from_string(value) ==
  IF \E i \in DOMAIN PROTECTION_STATES : PROTECTION_STATES[i] = value THEN value ELSE ""

\* DeviceState(): the defaults of the dataclass
DeviceState ==
  [f \in StateFields |->
     IF f \in FloatFields THEN Zero
     ELSE IF f \in {"brightness", "volume"} THEN 0
     ELSE IF f \in {"metering_closed", "output_closed"} THEN FALSE
     ELSE IF f = "protection_state" THEN ""
     ELSE "CV"]

\* DeviceInfo()
DeviceInfo == [model_name |-> <<>>, hardware_version |-> <<>>, firmware_version |-> <<>>]

\* an update that starts from a fresh DeviceState instead of the current one
update_from_dict_resets(st, data) ==
  [f \in StateFields |->
     IF KeyOf(f) \notin DOMAIN data THEN DeviceState[f]
     ELSE IF f = "protection_state" THEN from_string(data[KeyOf(f)])
     ELSE IF f = "mode" THEN (IF data[KeyOf(f)] = "CC" THEN "CC" ELSE "CV")
     ELSE data[KeyOf(f)]]

\* DeviceState.update_from_dict
update_from_dict(st, data) ==
  [f \in StateFields |->
     IF KeyOf(f) \notin DOMAIN data THEN st[f]
     ELSE IF f = "protection_state" THEN from_string(data[KeyOf(f)])
     ELSE IF f = "mode" THEN (IF data[KeyOf(f)] = "CC" THEN "CC" ELSE "CV")
     ELSE data[KeyOf(f)]]

\* bytes_to_float: what it returns, and whether it raises
bytes_to_float(data) == Slice(data, 0, 4)
TooShort(data) == Len(data) < 4

\* str.rstrip("\x00") and str.strip() on character codes
RECURSIVE rstrip_nul(_)
rstrip_nul(s) ==
  IF s # <<>> /\ s[Len(s)] = 0 THEN rstrip_nul(SubSeq(s, 1, Len(s) - 1)) ELSE s

Whitespace == {9, 10, 11, 12, 13, 28, 29, 30, 31, 32}

RECURSIVE strip(_)
strip(s) ==
  IF s # <<>> /\ s[1] \in Whitespace THEN strip(Tail(s))
  ELSE IF s # <<>> /\ s[Len(s)] \in Whitespace THEN strip(SubSeq(s, 1, Len(s) - 1))
  ELSE s

\* data.decode("utf-8", errors="ignore").rstrip("\x00").strip(), for ASCII data
decode_text(data) == strip(rstrip_nul(data))

\* a dict with one entry, and the empty dict
One(key, value) == [k \in {key} |-> value]
EmptyDict == [k \in {} |-> 0]

\* the dict the ALL branch builds from a payload of at least 139 bytes
AllFloatOffsets ==
  <<<<"inputVoltage", 0>>, <<"setVoltage", 4>>, <<"setCurrent", 8>>,
    <<"outputVoltage", 12>>, <<"outputCurrent", 16>>, <<"outputPower", 20>>,
    <<"temperature", 24>>,
    <<"group1setVoltage", 28>>, <<"group1setCurrent", 32>>,
    <<"group2setVoltage", 36>>, <<"group2setCurrent", 40>>,
    <<"group3setVoltage", 44>>, <<"group3setCurrent", 48>>,
    <<"group4setVoltage", 52>>, <<"group4setCurrent", 56>>,
    <<"group5setVoltage", 60>>, <<"group5setCurrent", 64>>,
    <<"group6setVoltage", 68>>, <<"group6setCurrent", 72>>,
    <<"overVoltageProtection", 76>>, <<"overCurrentProtection", 80>>,
    <<"overPowerProtection", 84>>, <<"overTemperatureProtection", 88>>,
    <<"lowVoltageProtection", 92>>,
    <<"outputCapacity", 99>>, <<"outputEnergy", 103>>,
    <<"upperLimitVoltage", 111>>, <<"upperLimitCurrent", 115>>>>

AllKeys ==
  {AllFloatOffsets[i][1] : i \in DOMAIN AllFloatOffsets}
  \cup {"brightness", "volume", "meteringClosed", "outputClosed", "protectionState", "mode"}

parse_all(view) ==
  [k \in AllKeys |->
     IF \E i \in DOMAIN AllFloatOffsets : AllFloatOffsets[i][1] = k
     THEN LET off == AllFloatOffsets[CHOOSE i \in DOMAIN AllFloatOffsets :
                                       AllFloatOffsets[i][1] = k][2]
          IN IF Len(view) > off + 3 THEN bytes_to_float(Slice(view, off, off + 4)) ELSE Zero
     ELSE IF k = "brightness" THEN (IF Len(view) > 96 THEN At(view, 96) ELSE 0)
     ELSE IF k = "volume" THEN (IF Len(view) > 97 THEN At(view, 97) ELSE 0)
     ELSE IF k = "meteringClosed" THEN (IF Len(view) > 98 THEN At(view, 98) = 0 ELSE FALSE)
     ELSE IF k = "outputClosed" THEN (IF Len(view) > 107 THEN At(view, 107) = 1 ELSE FALSE)
     ELSE IF k = "protectionState"
     THEN (IF Len(view) > 108 /\ At(view, 108) < Len(PROTECTION_STATES)
           THEN PROTECTION_STATES[At(view, 108) + 1] ELSE "")
     ELSE (IF Len(view) > 109 /\ At(view, 109) = 0 THEN "CC" ELSE "CV")]

\* the result of _parse_packet_data: the dict (the empty dict stands for None)
\* and the exception that leaves it, if any
Parsed(result) == [raised |-> "none", result |-> result]
ParseRaises(err) == [raised |-> err, result |-> EmptyDict]

\* a branch  result[key] = bytes_to_float(data)
\* a float field read from a short payload filled up with zero bytes
parse_float_pads(key, data) ==
  Parsed(One(key, [i \in 1..4 |-> IF i <= Len(data) THEN data[i] ELSE 0]))

parse_float(key, data) ==
  IF TooShort(data) THEN ParseRaises("DPS150ProtocolError")
  ELSE Parsed(One(key, bytes_to_float(data)))

parse_packet_data(type_code, data) ==
  IF Len(data) = 0 THEN Parsed(EmptyDict)
  ELSE CASE type_code = INPUT_VOLTAGE -> parse_float("inputVoltage", data)
         [] type_code = OUTPUT_VOLTAGE_CURRENT_POWER ->
              IF Len(data) >= 12
              THEN Parsed([k \in {"outputVoltage", "outputCurrent", "outputPower"} |->
                             IF k = "outputVoltage" THEN bytes_to_float(Slice(data, 0, 4))
                             ELSE IF k = "outputCurrent" THEN bytes_to_float(Slice(data, 4, 8))
                             ELSE bytes_to_float(Slice(data, 8, 12))])
              ELSE Parsed(EmptyDict)
         [] type_code = TEMPERATURE -> parse_float("temperature", data)
         [] type_code = OUTPUT_CAPACITY -> parse_float("outputCapacity", data)
         [] type_code = OUTPUT_ENERGY -> parse_float("outputEnergy", data)
         [] type_code = OUTPUT_ENABLE -> Parsed(One("outputClosed", At(data, 0) = 1))
         [] type_code = PROTECTION_STATE ->
              IF At(data, 0) < Len(PROTECTION_STATES)
              THEN Parsed(One("protectionState", PROTECTION_STATES[At(data, 0) + 1]))
              ELSE Parsed(EmptyDict)
         [] type_code = MODE -> Parsed(One("mode", IF At(data, 0) = 0 THEN "CC" ELSE "CV"))
         [] type_code = MODEL_NAME -> Parsed(One("modelName", decode_text(data)))
         [] type_code = HARDWARE_VERSION -> Parsed(One("hardwareVersion", decode_text(data)))
         [] type_code = FIRMWARE_VERSION -> Parsed(One("firmwareVersion", decode_text(data)))
         [] type_code = UPPER_LIMIT_VOLTAGE -> parse_float("upperLimitVoltage", data)
         [] type_code = UPPER_LIMIT_CURRENT -> parse_float("upperLimitCurrent", data)
         [] type_code = ALL ->
              IF Len(data) >= AllStateLength THEN Parsed(parse_all(data))
              ELSE Parsed(EmptyDict)
         [] OTHER -> Parsed(EmptyDict)

\* for callback in self._callbacks: try: callback(self.state) except Exception: pass
\* each call is logged with the state the listener was handed
invoke_callbacks_unguarded(cbs, st) ==
  LET stop == IF \E i \in DOMAIN cbs : cbs[i] = "raises"
              THEN CHOOSE i \in DOMAIN cbs :
                     cbs[i] = "raises" /\ \A j \in 1..(i - 1) : cbs[j] # "raises"
              ELSE Len(cbs)
  IN [i \in 1..stop |-> [listener |-> i, saw |-> st, raised |-> cbs[i] = "raises"]]

invoke_callbacks(cbs, st) ==
  [i \in 1..Len(cbs) |-> [listener |-> i, saw |-> st, raised |-> cbs[i] = "raises"]]

\* info fields are set from the keys of the three identity strings
update_info(inf, data) ==
  [model_name |-> IF "modelName" \in DOMAIN data THEN data["modelName"] ELSE inf.model_name,
   hardware_version |-> IF "hardwareVersion" \in DOMAIN data
                        THEN data["hardwareVersion"] ELSE inf.hardware_version,
   firmware_version |-> IF "firmwareVersion" \in DOMAIN data
                        THEN data["firmwareVersion"] ELSE inf.firmware_version]

\* what one call of _on_packet_received does to the state and the info, the
\* listener calls it makes, and the exception that leaves it (never one)
on_packet_received_notify_first(st, inf, cbs, type_code, data) ==
  LET p == parse_packet_data(type_code, data)
  IN IF p.raised # "none" \/ DOMAIN p.result = {}
     THEN [state |-> st, info |-> inf, log |-> <<>>, raised |-> "none"]
     ELSE [state |-> update_from_dict(st, p.result),
           info |-> update_info(inf, p.result),
           log |-> invoke_callbacks(cbs, st),
           raised |-> "none"]

on_packet_received(st, inf, cbs, type_code, data) ==
  LET p == parse_packet_data(type_code, data)
  IN IF p.raised # "none" \/ DOMAIN p.result = {}
     THEN [state |-> st, info |-> inf, log |-> <<>>, raised |-> "none"]
     ELSE LET new == update_from_dict(st, p.result)
          IN [state |-> new,
              info |-> update_info(inf, p.result),
              log |-> invoke_callbacks(cbs, new),
              raised |-> "none"]

\* no packet handled yet
NoPacket ==
  [seq |-> 0, type_code |-> 0, data |-> <<>>, before |-> DeviceState,
   info_before |-> DeviceInfo, listeners |-> <<>>, log |-> <<>>, raised |-> "none",
   calls |-> 0]

-----------------------------------------------------------------------------
(* The codec experiment: encode, turn the frame into an inbound one, damage
   one bit, decode; or decode a raw byte string. *)

RECURSIVE Pow2(_)
Pow2(k) == IF k = 0 THEN 1 ELSE 2 * Pow2(k - 1)

\* b with bit k inverted (b XOR 2^k)
FlipBit(b, k) == IF (b \div Pow2(k)) % 2 = 1 THEN b - Pow2(k) ELSE b + Pow2(k)

NoFlip == [where |-> "none", index |-> 0, bit |-> 0]

NoLock == [holder |-> "none", waiters |-> <<>>]

\* SerialTransport.__init__; first is the first packet handed to writer.write
NewTransport ==
  [connected |-> FALSE, writer |-> "none", lock |-> NoLock,
   reader_task |-> FALSE, reader |-> "none", buffer |-> <<>>, first |-> <<>>]

NoCall ==
  [op |-> "none", arg |-> 0, k |-> 0, pc |-> "idle", tr |-> 0, aw |-> "none",
   sent |-> <<>>, res |-> "none", exc |-> "none", cancel |-> FALSE, att0 |-> FALSE]

\* a valid inbound frame: encode_packet with the header replaced
InboundFrame(command, type_code, data) ==
  <<HEADER_INPUT>> \o Tail(encode_packet(command, type_code, data).packet)

\* the payload 12.0 as float32, and float32 values that differ in their first byte
FloatOf(n) == <<n, 0, 64, 65>>

\* an all-state payload of n bytes: float number j (from 1) at offset 4(j-1) up
\* to 95, brightness 7, volume 3, metering byte 0, capacity, energy, output
\* byte 1, protection index 2, mode byte 0, one unused byte, the two limits
AllStateByte(o) ==
  IF o < 96 THEN FloatOf((o \div 4) + 1)[(o % 4) + 1]
  ELSE IF o = 96 THEN 7
  ELSE IF o = 97 THEN 3
  ELSE IF o = 98 THEN 0
  ELSE IF o < 103 THEN FloatOf(30)[o - 98]
  ELSE IF o < 107 THEN FloatOf(31)[o - 102]
  ELSE IF o = 107 THEN 1
  ELSE IF o = 108 THEN 2
  ELSE IF o = 109 THEN 0
  ELSE IF o = 110 THEN 0
  ELSE IF o < 115 THEN FloatOf(32)[o - 110]
  ELSE IF o < 119 THEN FloatOf(33)[o - 114]
  ELSE 0

AllStatePayload(n) == [i \in 1..n |-> AllStateByte(i - 1)]

\* the type codes of the single float32 fields
FloatTypes ==
  {INPUT_VOLTAGE, VOLTAGE_SET, CURRENT_SET, TEMPERATURE} \cup (GROUP1_VOLTAGE_SET..LVP)
  \cup {OUTPUT_CAPACITY, OUTPUT_ENERGY, UPPER_LIMIT_VOLTAGE, UPPER_LIMIT_CURRENT}

\* the payload lengths of the all-state frames received
AllStateLengths == {100, 119, AllStateLength}

\* the frames the device sends in the model, each read as one chunk
InboundChunks ==
  {InboundFrame(CMD_GET, ty, FloatOf(40)) : ty \in FloatTypes}
  \cup {InboundFrame(CMD_GET, ALL, AllStatePayload(n)) : n \in AllStateLengths}
  \cup {InboundFrame(CMD_GET, OUTPUT_VOLTAGE_CURRENT_POWER,
                      FloatOf(41) \o FloatOf(42) \o FloatOf(43)),
         InboundFrame(CMD_GET, OUTPUT_ENABLE, <<1>>),
         InboundFrame(CMD_GET, PROTECTION_STATE, <<1>>),
         InboundFrame(CMD_GET, MODE, <<0>>),
         InboundFrame(CMD_GET, MODEL_NAME, <<68, 80, 83, 0>>)}

\* what the device sends in one behaviour: one frame, or one of the first
\* frames followed by one of the second frames
FirstChunks ==
  {InboundFrame(CMD_GET, INPUT_VOLTAGE, FloatOf(40)),
   InboundFrame(CMD_GET, ALL, AllStatePayload(AllStateLength)),
   InboundFrame(CMD_GET, PROTECTION_STATE, <<1>>)}

SecondChunks ==
  {InboundFrame(CMD_GET, ALL, AllStatePayload(n)) : n \in AllStateLengths}
  \cup {InboundFrame(CMD_GET, TEMPERATURE, FloatOf(44)),
         InboundFrame(CMD_GET, VOLTAGE_SET, FloatOf(45)),
         InboundFrame(CMD_GET, OUTPUT_VOLTAGE_CURRENT_POWER,
                      FloatOf(41) \o FloatOf(42) \o FloatOf(43))}

Scripts ==
  {<<c>> : c \in InboundChunks} \cup {<<a, b>> : a \in FirstChunks, b \in SecondChunks}

\* frame with one bit of the byte at offset index flipped
Corrupt(frame, index, bit) == [frame EXCEPT ![index + 1] = FlipBit(@, bit)]

\* an all-state payload whose protection index (byte 108) is idx
AllStateWithProtection(idx) == [AllStatePayload(AllStateLength) EXCEPT ![109] = idx]

\* protection-state frames and all-state frames with an index outside 0..6,
\* each after a frame that sets the protection state to OVP
ProtectionScripts ==
  {<<InboundFrame(CMD_GET, PROTECTION_STATE, <<1>>),
     InboundFrame(CMD_GET, PROTECTION_STATE, <<idx>>)>> : idx \in {6, 7, 255}}
  \cup {<<InboundFrame(CMD_GET, PROTECTION_STATE, <<1>>),
          InboundFrame(CMD_GET, ALL, AllStateWithProtection(idx))>> : idx \in {6, 7, 255}}

\* the frame that gets corrupted and the valid frames sent after it
FrameA == InboundFrame(CMD_GET, TEMPERATURE, FloatOf(44))
FrameB == InboundFrame(CMD_GET, INPUT_VOLTAGE, FloatOf(40))
FrameC == InboundFrame(CMD_GET, OUTPUT_ENABLE, <<1>>)

\* FrameA with one bit flipped in its length byte (offset 3), in its first
\* payload byte (offset 4) or in its checksum (offset 8)
CorruptFrames ==
  {Corrupt(FrameA, index, bit) : index \in {3, 4, 8}, bit \in {0, 2, 7}}

\* a corrupt frame followed by valid frames, in one chunk or in successive chunks
CorruptScripts ==
  {<<c \o FrameB>> : c \in CorruptFrames}
  \cup {<<c, FrameB>> : c \in CorruptFrames}
  \cup {<<c \o FrameB \o FrameC>> : c \in CorruptFrames}

\* checksum-valid frames that carry no field: a type code the parser does not
\* know, an empty payload, a float field of two bytes, a triple of eight bytes
NoFieldFrames ==
  {InboundFrame(CMD_GET, 200, <<1>>),
   InboundFrame(CMD_GET, TEMPERATURE, <<>>),
   InboundFrame(CMD_GET, TEMPERATURE, <<1, 2>>),
   InboundFrame(CMD_GET, OUTPUT_VOLTAGE_CURRENT_POWER, FloatOf(41) \o FloatOf(42))}

NoFieldScripts ==
  {<<FrameB, x, FrameC>> : x \in NoFieldFrames}
  \cup {<<FrameB \o x \o FrameC>> : x \in NoFieldFrames}

StreamScripts == ProtectionScripts \cup CorruptScripts \cup NoFieldScripts

\* what the device sends to a session that is closed and opened again: an input
\* voltage, then the model name
\* an all-state frame, which carries the set voltage, after a single-field frame
MixedScripts ==
  {<<FrameB, InboundFrame(CMD_GET, ALL, AllStatePayload(AllStateLength))>>}

SessionScripts ==
  {<<FrameB, InboundFrame(CMD_GET, MODEL_NAME, <<68, 80, 83, 0>>)>>}

\* DPS150.__init__: no transport, no listener, no poll task, lock free
Constructed ==
  /\ transport = 0
  /\ transports = [id \in 1..MaxTransports |-> NewTransport]
  /\ lock = NoLock
  /\ callbacks = <<>>
  /\ polling_task = "none"
  /\ task = [t \in Tasks |->
               IF t \in Callers THEN NoCall
               ELSE [NoCall EXCEPT !.op = "poll", !.pc = "unborn"]]
  /\ state = DeviceState
  /\ info = DeviceInfo
  /\ last = NoPacket
  /\ received = 0

SessionInit ==
  /\ Constructed
  /\ pending = <<>>
  /\ script = <<>>

\* the session with a device that is going to send the chunks of one script
\* once a read loop runs
InboundInit ==
  /\ Constructed
  /\ pending \in Scripts
  /\ script = pending

\* the session with a device that sends an out-of-range protection index or a
\* corrupt frame followed by valid ones
StreamInit ==
  /\ Constructed
  /\ pending \in StreamScripts
  /\ script = pending

\* the session of an application that connects, reads, disconnects and connects
\* again while the device sends frames
SessionsInit ==
  /\ Constructed
  /\ pending \in SessionScripts
  /\ script = pending

FramerIdle ==
  /\ scenario = [kind |-> "none", noise |-> <<>>, frame |-> <<>>, second |-> <<>>]
  /\ stream = <<>> /\ buffer = <<>> /\ emitted = <<>>

CodecIdle ==
  /\ cmd_in = 0 /\ type_in = 0 /\ data_in = <<>>
  /\ encoded = NoResult /\ pkt = <<>> /\ flip = NoFlip /\ decoded = NoResult
  /\ codec_pc = "idle"

CodecInit ==
  /\ FramerIdle /\ SessionInit
  /\ encoded = NoResult /\ flip = NoFlip /\ decoded = NoResult
  /\ \/ /\ cmd_in \in CodecCommands /\ type_in \in CodecTypes
        /\ data_in \in CodecPayloads
        /\ pkt = <<>>
        /\ codec_pc = "input"
     \/ /\ cmd_in = CMD_SET /\ type_in = VOLTAGE_SET
        /\ data_in \in LongPayloads
        /\ pkt = <<>>
        /\ codec_pc = "input"
     \/ /\ cmd_in = 0 /\ type_in = 0 /\ data_in = <<>>
        /\ pkt \in RawPackets
        /\ codec_pc = "inbound"

\* packet = encode_packet(command, type_code, data)
Encode ==
  /\ codec_pc = "input"
  /\ encoded' = encode_packet(cmd_in, type_in, data_in)
  /\ pkt' = encoded'.packet
  /\ codec_pc' = IF encoded'.ok THEN "encoded" ELSE "raised"
  /\ UNCHANGED <<cmd_in, type_in, data_in, flip, decoded>>
  /\ UNCHANGED <<framerVars, sessionVars>>

\* packet = bytes([HEADER_INPUT]) + packet[1:]
ToInbound ==
  /\ codec_pc = "encoded"
  /\ pkt' = <<HEADER_INPUT>> \o Tail(pkt)
  /\ codec_pc' = "inbound"
  /\ UNCHANGED <<cmd_in, type_in, data_in, encoded, flip, decoded>>
  /\ UNCHANGED <<framerVars, sessionVars>>

\* one bit of the declared length (byte 3) flipped, checksum left as it is
FlipLength ==
  /\ codec_pc = "inbound" /\ encoded.ok /\ flip = NoFlip
  /\ \E k \in 0..7 :
       /\ pkt' = [pkt EXCEPT ![4] = FlipBit(pkt[4], k)]
       /\ flip' = [where |-> "length", index |-> 3, bit |-> k]
  /\ UNCHANGED <<cmd_in, type_in, data_in, encoded, decoded, codec_pc>>
  /\ UNCHANGED <<framerVars, sessionVars>>

\* one bit of one payload byte flipped, checksum left as it is
FlipPayload ==
  /\ codec_pc = "inbound" /\ encoded.ok /\ flip = NoFlip
  /\ \E i \in 1..Len(data_in), k \in 0..7 :
       /\ pkt' = [pkt EXCEPT ![4 + i] = FlipBit(pkt[4 + i], k)]
       /\ flip' = [where |-> "payload", index |-> 3 + i, bit |-> k]
  /\ UNCHANGED <<cmd_in, type_in, data_in, encoded, decoded, codec_pc>>
  /\ UNCHANGED <<framerVars, sessionVars>>

\* decode_packet(packet)
Decode ==
  /\ codec_pc = "inbound"
  /\ decoded' = decode_packet(pkt)
  /\ codec_pc' = "decoded"
  /\ UNCHANGED <<cmd_in, type_in, data_in, encoded, pkt, flip>>
  /\ UNCHANGED <<framerVars, sessionVars>>

CodecNext == Encode \/ ToInbound \/ FlipLength \/ FlipPayload \/ Decode

SpecCodec == CodecInit /\ [][CodecNext]_vars

-----------------------------------------------------------------------------
(* Properties of the codec *)

\* the sum of the bytes of s modulo 256
RECURSIVE ByteSum(_)
ByteSum(s) ==
  IF Len(s) = 0 THEN 0
  ELSE IF Len(s) = 1 THEN s[1] % 256
  ELSE LET h == Len(s) \div 2
       IN (ByteSum(SubSeq(s, 1, h)) + ByteSum(SubSeq(s, h + 1, Len(s)))) % 256

\* C1: for every command, type code and payload of 0..255 bytes, encode_packet
\* succeeds and decode_packet of the frame with its header replaced by 0xF0
\* succeeds and returns the same command, type code, payload and its length.
C1_RoundTrip ==
  /\ (codec_pc = "raised" => Len(data_in) > 255)
  /\ (codec_pc = "decoded" /\ encoded.ok /\ flip = NoFlip) =>
       /\ decoded.ok
       /\ decoded.command = cmd_in
       /\ decoded.type_code = type_in
       /\ decoded.length = Len(data_in)
       /\ decoded.data = data_in

C1_Witness ==
  /\ codec_pc = "decoded" /\ encoded.ok /\ flip = NoFlip
  /\ Len(data_in) = 255 /\ decoded.ok /\ decoded.data = Payload255

\* C2: encode_packet returns [0xF1, command, type_code, len(payload)], the
\* payload, and one checksum byte (type_code + len(payload) + sum of payload)
\* mod 256; header and command are not in the checksum; SET (0xB1) of type 193
\* with payload 00 00 40 41 has checksum 70.
C2_EncodeExact ==
  codec_pc = "encoded" =>
    /\ pkt = <<241, cmd_in, type_in, Len(data_in)>> \o data_in
             \o <<(type_in + Len(data_in) + ByteSum(data_in)) % 256>>
    /\ (cmd_in = 177 /\ type_in = 193 /\ data_in = <<0, 0, 64, 65>>)
         => pkt = <<241, 177, 193, 4, 0, 0, 64, 65, 70>>

C2_Witness ==
  /\ codec_pc = "encoded" /\ cmd_in = 177 /\ type_in = 193
  /\ data_in = <<0, 0, 64, 65>> /\ pkt[Len(pkt)] = 70

\* C3: a valid inbound frame with one bit of its length byte (byte 3) flipped
\* and the checksum not recomputed is never decoded successfully: decode_packet
\* raises DPS150ProtocolError.
C3_LengthFlipRejected ==
  (codec_pc = "decoded" /\ flip.where = "length") =>
    (~decoded.ok /\ decoded.err = "DPS150ProtocolError")

\* C4: a valid inbound frame with a non-empty payload and one bit of one
\* payload byte flipped, the checksum not recomputed, makes decode_packet raise
\* DPS150ProtocolError.
C4_PayloadFlipRejected ==
  (codec_pc = "decoded" /\ flip.where = "payload") =>
    (~decoded.ok /\ decoded.err = "DPS150ProtocolError")

C4_Witness ==
  /\ codec_pc = "decoded" /\ flip.where = "payload" /\ flip.bit = 7
  /\ Len(data_in) = 2 /\ decoded.msg = "Checksum mismatch"

\* what C5 says makes decode_packet raise
C5_Malformed(p) ==
  IF Len(p) < 5 THEN TRUE
  ELSE IF p[1] # 240 THEN TRUE
  ELSE IF 5 + p[4] > Len(p) THEN TRUE
  ELSE p[5 + p[4]] # (p[3] + p[4] + ByteSum(SubSeq(p, 5, 4 + p[4]))) % 256

\* C5: decode_packet raises DPS150ProtocolError exactly when the input has
\* fewer than 5 bytes, or does not start with 0xF0, or declares a length that
\* needs more bytes than supplied, or carries a checksum byte other than the
\* computed one; every other input decodes, whatever its command and type code.
C5_DecodeErrors ==
  codec_pc = "decoded" =>
    IF C5_Malformed(pkt)
    THEN ~decoded.ok /\ decoded.err = "DPS150ProtocolError"
    ELSE /\ decoded.ok
         /\ decoded.command = pkt[2] /\ decoded.type_code = pkt[3]
         /\ decoded.length = pkt[4]
         /\ decoded.data = SubSeq(pkt, 5, 4 + pkt[4])

\* a frame followed by one further byte is decoded
C5_Witness ==
  /\ codec_pc = "decoded" /\ decoded.ok /\ Len(pkt) = 6 /\ pkt[4] = 0
  /\ decoded.command = 2

-----------------------------------------------------------------------------
(* protocol.py: PacketBuffer *)

\* PacketBuffer.append: self.buffer.extend(data)
append(buf, chunk) == buf \o chunk

\* the loop without the check that the whole candidate has arrived: the slice
\* ends where the buffer ends
RECURSIVE scan_overruns(_, _, _)
scan_overruns(buf, i, packets) ==
  IF ~(i < Len(buf) - 5) THEN [i |-> i, packets |-> packets]
  ELSE IF At(buf, i) = HEADER_INPUT
  THEN IF i + 3 >= Len(buf) THEN [i |-> i, packets |-> packets]
       ELSE LET length == At(buf, i + 3)
                packet_length == 5 + length
                packet_end == IF i + packet_length > Len(buf) THEN Len(buf)
                              ELSE i + packet_length
            IN scan_overruns(buf, packet_end, Append(packets, Slice(buf, i, packet_end)))
  ELSE scan_overruns(buf, i + 1, packets)

\* the while loop of extract_packets from index i on, with the packets found so
\* far; yields the index the loop stops at and the packets
RECURSIVE scan(_, _, _)
scan(buf, i, packets) ==
  IF ~(i < Len(buf) - 5) THEN [i |-> i, packets |-> packets]
  ELSE IF At(buf, i) = HEADER_INPUT
  THEN IF i + 3 >= Len(buf) THEN [i |-> i, packets |-> packets]
       ELSE LET length == At(buf, i + 3)
                packet_length == 5 + length
            IN IF i + packet_length > Len(buf) THEN [i |-> i, packets |-> packets]
               ELSE scan(buf, i + packet_length,
                         Append(packets, Slice(buf, i, i + packet_length)))
  ELSE scan(buf, i + 1, packets)

\* PacketBuffer.extract_packets: the packets returned and the buffer left
extract_packets(buf) ==
  LET r == scan(buf, 0, <<>>)
  IN [packets |-> r.packets,
      buffer |-> IF r.packets # <<>> THEN Slice(buf, r.i, Len(buf)) ELSE buf]

-----------------------------------------------------------------------------
(* The framer experiment: a stream holding one valid inbound frame, alone or
   behind noise, or two valid frames back to back, reaches an empty
   PacketBuffer in chunks of any size; extract_packets is called after each
   append (as in _read_loop). *)

FramerFrames ==
  {InboundFrame(CMD_GET, VOLTAGE_SET, d) : d \in SeqsUpTo(FramePayloadBytes, MaxFramePayload)}
Noises == SeqsUpTo(NoiseBytes, MaxNoise) \ {<<>>}

FramerInit ==
  /\ CodecIdle /\ SessionInit
  /\ buffer = <<>> /\ emitted = <<>>
  /\ \/ \E f \in FramerFrames :
          /\ scenario = [kind |-> "single", noise |-> <<>>, frame |-> f, second |-> <<>>]
          /\ stream = f
     \/ \E n \in Noises, f \in FramerFrames :
          /\ Len(f) > 5
          /\ scenario = [kind |-> "noisy", noise |-> n, frame |-> f, second |-> <<>>]
          /\ stream = n \o f
     \/ \E f \in FramerFrames, g \in FramerFrames :
          /\ scenario = [kind |-> "pair", noise |-> <<>>, frame |-> f, second |-> g]
          /\ stream = f \o g

\* data = await reader.read(1024); buffer.append(data); buffer.extract_packets()
Feed ==
  /\ stream # <<>>
  /\ \E n \in 1..Len(stream) :
       LET r == extract_packets(append(buffer, SubSeq(stream, 1, n)))
       IN /\ buffer' = r.buffer
          /\ emitted' = emitted \o r.packets
          /\ stream' = SubSeq(stream, n + 1, Len(stream))
  /\ UNCHANGED scenario
  /\ UNCHANGED <<codecVars, sessionVars>>

FramerNext == Feed

SpecFramer == FramerInit /\ [][FramerNext]_vars

\* C6: a complete valid inbound frame (an empty payload included) appended to
\* an empty PacketBuffer in any partition, extract_packets called after each
\* append, yields over all calls exactly one frame, equal to the original.
C6_FragmentationIndependent ==
  (scenario.kind = "single" /\ stream = <<>>) => emitted = <<scenario.frame>>

\* C7: when noise holding a stray 0xF0 byte is followed by a genuine valid
\* frame, then once all bytes have arrived the genuine frame is among the
\* frames emitted by extract_packets, byte for byte.
C7_NoiseTolerant ==
  ( /\ scenario.kind = "noisy"
    /\ \E i \in 1..Len(scenario.noise) : scenario.noise[i] = 240
    /\ stream = <<>> )
  => \E j \in 1..Len(emitted) : emitted[j] = scenario.frame

-----------------------------------------------------------------------------
(* device.py and transport.py: the session.

   The code runs on one asyncio event loop: a task runs without interruption
   from one await that suspends it to the next.  A step of the model is one
   such run: Resume takes a suspended task up to its next suspension, Call
   starts a public operation in a caller.  The session state is handled as one
   record S while a run is computed. *)

\* struct.pack("<f", value) for value = q/4, q an integer with |q| < 2^24:
\* sign, biased exponent and 23-bit mantissa, little-endian
RECURSIVE Log2Floor(_)
Log2Floor(n) == IF n < 2 THEN 0 ELSE 1 + Log2Floor(n \div 2)

float_to_bytes(q) ==
  IF q = 0 THEN <<0, 0, 0, 0>>
  ELSE LET a == IF q < 0 THEN 0 - q ELSE q
           e == Log2Floor(a)
           exponent == e - 2 + 127
           mantissa == a * Pow2(23 - e) - Pow2(23)
           bits == (IF q < 0 THEN Pow2(31) ELSE 0) + exponent * Pow2(23) + mantissa
       IN <<bits % 256, (bits \div 256) % 256, (bits \div 65536) % 256,
            bits \div 16777216>>

\* the values the callers of the model pass: 12.0 V, 5.0 V and 0.5 A, in quarters
Volts12 == 12 * 4
GroupVolts == 5 * 4
GroupAmps == 4 \div 2

\* the DPS150 object as its methods see it: the attributes of __init__ and the
\* tasks inside its methods
Session ==
  [transport |-> transport, transports |-> transports, lock |-> lock,
   callbacks |-> callbacks, polling_task |-> polling_task, task |-> task,
   state |-> state, info |-> info]

\* a SerialTransport object is live while the session, a task inside one of its
\* methods or its own read loop refers to it
Live(S, id) ==
  \/ S.transport = id
  \/ \E t \in Tasks : S.task[t].tr = id
  \/ S.transports[id].reader \in {"running", "cancelled"}

FreeTransports(S) == {id \in DOMAIN S.transports : ~Live(S, id)}

\* a task stays at these positions until it is resumed, called or cancelled
SuspendedPcs ==
  {"idle", "ret", "unborn", "done", "created", "wait_lock", "wait_tr_lock",
   "drain", "settle", "sleep", "sleep2", "open", "await_poll", "await_reader",
   "wait_closed", "poll_sleep", "poll_err_sleep"}

\* asyncio.Lock.acquire takes the lock at once only when it is free and nobody waits
LockFreeAlways(l) == TRUE

LockFree(l) == l.holder = "none" /\ l.waiters = <<>>

\* a waiter is woken in FIFO order once the lock is released
LockHead(l, t) == l.holder = "none" /\ l.waiters # <<>> /\ Head(l.waiters) = t

RemoveWaiter(ws, t) == SelectSeq(ws, LAMBDA x : x # t)

\* leaving "async with": release what t holds; a cancelled waiter leaves the queue
Unlock(l, t) ==
  [holder |-> IF l.holder = t THEN "none" ELSE l.holder,
   waiters |-> RemoveWaiter(l.waiters, t)]

ReleaseAll(S, t) ==
  [S EXCEPT !.lock = Unlock(S.lock, t),
            !.transports = [i \in DOMAIN S.transports |->
                              [S.transports[i] EXCEPT !.lock = Unlock(S.transports[i].lock, t)]]]

\* transport.is_connected of the attached transport
Attached(S) == S.transport # 0 /\ S.transports[S.transport].connected

send_guard_missing(S) == FALSE

\* _send_command: not self.transport or not self.transport.is_connected
NotConnected(S) == ~Attached(S)

ValidLevel_off_by_one(v) == 0 <= v /\ v <= 11

\* set_brightness / set_volume: 0 <= value <= 10
ValidLevel(v) == 0 <= v /\ v <= 10

\* set_group / load_group: 1 <= group <= 6
ValidGroup(g) == 1 <= g /\ g <= 6

\* DeviceState defaults read by load_group (no inbound update in this model)
StateGroupVoltage(g) == 0
StateGroupCurrent(g) == 0

\* BAUD_RATE_OPTIONS.index(115200) + 1
baud_index == (CHOOSE i \in DOMAIN BAUD_RATE_OPTIONS : BAUD_RATE_OPTIONS[i] = 115200)

FrameOf(command, type_code, data) ==
  [command |-> command, type_code |-> type_code, data |-> data]

set_group_frame_slots_first(group, k) ==
  IF k = 1
  THEN FrameOf(CMD_SET, GROUP1_VOLTAGE_SET + (group - 1) * 2, float_to_bytes(GroupVolts))
  ELSE IF k = 2
  THEN FrameOf(CMD_SET, GROUP1_CURRENT_SET + (group - 1) * 2, float_to_bytes(GroupAmps))
  ELSE IF k = 3 THEN FrameOf(CMD_SET, VOLTAGE_SET, float_to_bytes(GroupVolts))
  ELSE FrameOf(CMD_SET, CURRENT_SET, float_to_bytes(GroupAmps))

\* the k-th _send_command of set_group(group, 5.0, 0.5): set_voltage, set_current,
\* then the two group slots
set_group_frame(group, k) ==
  IF k = 1 THEN FrameOf(CMD_SET, VOLTAGE_SET, float_to_bytes(GroupVolts))
  ELSE IF k = 2 THEN FrameOf(CMD_SET, CURRENT_SET, float_to_bytes(GroupAmps))
  ELSE IF k = 3
  THEN FrameOf(CMD_SET, GROUP1_VOLTAGE_SET + (group - 1) * 2, float_to_bytes(GroupVolts))
  ELSE FrameOf(CMD_SET, GROUP1_CURRENT_SET + (group - 1) * 2, float_to_bytes(GroupAmps))

init_device_frame_baud_first(k) ==
  IF k = 1 THEN FrameOf(CMD_XXX_176, 0, <<baud_index>>)
  ELSE IF k = 2 THEN FrameOf(CMD_XXX_193, 0, <<1>>)
  ELSE IF k = 3 THEN FrameOf(CMD_GET, MODEL_NAME, <<>>)
  ELSE IF k = 4 THEN FrameOf(CMD_GET, HARDWARE_VERSION, <<>>)
  ELSE IF k = 5 THEN FrameOf(CMD_GET, FIRMWARE_VERSION, <<>>)
  ELSE FrameOf(CMD_GET, ALL, <<>>)

\* the k-th _send_command of _init_device
init_device_frame(k) ==
  IF k = 1 THEN FrameOf(CMD_XXX_193, 0, <<1>>)
  ELSE IF k = 2 THEN FrameOf(CMD_XXX_176, 0, <<baud_index>>)
  ELSE IF k = 3 THEN FrameOf(CMD_GET, MODEL_NAME, <<>>)
  ELSE IF k = 4 THEN FrameOf(CMD_GET, HARDWARE_VERSION, <<>>)
  ELSE IF k = 5 THEN FrameOf(CMD_GET, FIRMWARE_VERSION, <<>>)
  ELSE FrameOf(CMD_GET, ALL, <<>>)

\* the setters that pack a float, and the type code each one sends
FloatSetters == {"set_voltage", "set_current", "set_ovp", "set_ocp", "set_opp",
                 "set_otp", "set_lvp"}

FloatSetterType(op) ==
  CASE op = "set_voltage" -> VOLTAGE_SET
    [] op = "set_current" -> CURRENT_SET
    [] op = "set_ovp" -> OVP
    [] op = "set_ocp" -> OCP
    [] op = "set_opp" -> OPP
    [] op = "set_otp" -> OTP
    [] op = "set_lvp" -> LVP

\* the operations that send one fixed byte
Switches == {"enable_output", "disable_output", "start_metering", "stop_metering"}

\* the operations that make one _send_command call and return
SingleSetters == FloatSetters \cup Switches \cup {"set_brightness", "set_volume"}

\* the arguments of the k-th _send_command of operation op with argument arg
Frame(op, arg, k) ==
  CASE op \in FloatSetters -> FrameOf(CMD_SET, FloatSetterType(op), float_to_bytes(arg))
    [] op = "enable_output" -> FrameOf(CMD_SET, OUTPUT_ENABLE, <<1>>)
    [] op = "disable_output" -> FrameOf(CMD_SET, OUTPUT_ENABLE, <<0>>)
    [] op = "start_metering" -> FrameOf(CMD_SET, METERING_ENABLE, <<1>>)
    [] op = "stop_metering" -> FrameOf(CMD_SET, METERING_ENABLE, <<0>>)
    [] op = "set_brightness" -> FrameOf(CMD_SET, BRIGHTNESS, <<arg>>)
    [] op = "set_volume" -> FrameOf(CMD_SET, VOLUME, <<arg>>)
    [] op = "set_group" -> set_group_frame(arg, k)
    [] op = "load_group" ->
         IF k = 1 THEN FrameOf(CMD_GET, ALL, <<>>)
         ELSE IF k = 2
         THEN FrameOf(CMD_SET, VOLTAGE_SET, float_to_bytes(StateGroupVoltage(arg)))
         ELSE FrameOf(CMD_SET, CURRENT_SET, float_to_bytes(StateGroupCurrent(arg)))
    [] op \in {"get_all", "poll"} -> FrameOf(CMD_GET, ALL, <<>>)
    [] op = "connect" -> init_device_frame(k)
    [] op = "disconnect" -> FrameOf(CMD_XXX_193, 0, <<0>>)

At_pc(S, t, pc) == [S EXCEPT !.task[t].pc = pc]

\* the operation returns (res = "ok") or raises res to its caller
Finish(S, t, res) ==
  [S EXCEPT !.task[t].pc = "ret", !.task[t].res = res,
            !.task[t].k = 0, !.task[t].tr = 0, !.task[t].aw = "none"]

Raise_escalates(S, t, err) ==
  LET R == [ReleaseAll(S, t) EXCEPT !.task[t].tr = 0]
      op == S.task[t].op
  IN IF op = "disconnect" THEN Finish([R EXCEPT !.task[t].exc = err], t, err)
     ELSE IF op = "poll" THEN At_pc(R, t, "poll_err_sleep")
     ELSE Finish(R, t, err)

\* a poll task that ends at the first request that fails
Raise_ends_poll(S, t, err) ==
  LET R == [ReleaseAll(S, t) EXCEPT !.task[t].tr = 0]
      op == S.task[t].op
  IN IF op = "disconnect" THEN [R EXCEPT !.task[t].exc = err, !.task[t].pc = "dc_td"]
     ELSE IF op = "poll" THEN At_pc(R, t, "done")
     ELSE Finish(R, t, err)

\* an exception leaves _send_command: the locks held are released; disconnect
\* swallows it, _polling_loop waits one interval, any other operation raises it
Raise(S, t, err) ==
  LET R == [ReleaseAll(S, t) EXCEPT !.task[t].tr = 0]
      op == S.task[t].op
  IN IF op = "disconnect" THEN [R EXCEPT !.task[t].exc = err, !.task[t].pc = "dc_td"]
     ELSE IF op = "poll" THEN At_pc(R, t, "poll_err_sleep")
     ELSE Finish(R, t, err)

\* a poll task object that has ended and that nothing refers to any more gives
\* its place to the next one created
FreePollers(S) ==
  {p \in Pollers : /\ S.task[p].pc \in {"unborn", "done"}
                   /\ \A t \in Tasks : S.task[t].aw # p}

\* the listener passed to on_state_update: one that returns, or one that raises
Listener(arg) == IF arg = 0 THEN "returns" ELSE "raises"

\* on_state_update needs a new poll task
NeedsPollTask(S) ==
  S.polling_task = "none" \/ S.task[S.polling_task].pc = "done"

AfterSend_resend(S, t) ==
  LET me == S.task[t]
  IN CASE me.op \in SingleSetters ->
            IF me.k < 2 THEN [S EXCEPT !.task[t].k = 2, !.task[t].pc = "send"]
            ELSE Finish(S, t, "ok")
       [] me.op = "set_group" ->
            IF me.k < 4 THEN [S EXCEPT !.task[t].k = me.k + 1, !.task[t].pc = "send"]
            ELSE Finish(S, t, "ok")
       [] me.op = "load_group" ->
            IF me.k = 1 THEN At_pc(S, t, "sleep")
            ELSE IF me.k = 2 THEN [S EXCEPT !.task[t].k = 3, !.task[t].pc = "send"]
            ELSE Finish(S, t, "ok")
       [] me.op \in {"get_all", "connect", "poll"} -> At_pc(S, t, "sleep")
       [] me.op = "disconnect" -> At_pc(S, t, "dc_td")

\* a setter that writes the value it sent into the snapshot
AfterSend_optimistic(S, t) ==
  LET me == S.task[t]
  IN CASE me.op \in SingleSetters ->
            Finish(IF me.op = "set_voltage"
                   THEN [S EXCEPT !.state["set_voltage"] = float_to_bytes(me.arg)]
                   ELSE S, t, "ok")
       [] me.op = "set_group" ->
            IF me.k < 4 THEN [S EXCEPT !.task[t].k = me.k + 1, !.task[t].pc = "send"]
            ELSE Finish(S, t, "ok")
       [] me.op = "load_group" ->
            IF me.k = 1 THEN At_pc(S, t, "sleep")
            ELSE IF me.k = 2 THEN [S EXCEPT !.task[t].k = 3, !.task[t].pc = "send"]
            ELSE Finish(S, t, "ok")
       [] me.op \in {"get_all", "connect", "poll"} -> At_pc(S, t, "sleep")
       [] me.op = "disconnect" -> At_pc(S, t, "dc_td")

\* what follows the return of the k-th _send_command
AfterSend(S, t) ==
  LET me == S.task[t]
  IN CASE me.op \in SingleSetters -> Finish(S, t, "ok")
       [] me.op = "set_group" ->
            IF me.k < 4 THEN [S EXCEPT !.task[t].k = me.k + 1, !.task[t].pc = "send"]
            ELSE Finish(S, t, "ok")
       [] me.op = "load_group" ->
            IF me.k = 1 THEN At_pc(S, t, "sleep")
            ELSE IF me.k = 2 THEN [S EXCEPT !.task[t].k = 3, !.task[t].pc = "send"]
            ELSE Finish(S, t, "ok")
       [] me.op \in {"get_all", "connect", "poll"} -> At_pc(S, t, "sleep")
       [] me.op = "disconnect" -> At_pc(S, t, "dc_td")

\* what follows the sleep after the k-th _send_command
AfterSleep(S, t) ==
  LET me == S.task[t]
  IN CASE me.op = "get_all" -> Finish(S, t, "ok")
       [] me.op = "load_group" -> [S EXCEPT !.task[t].k = 2, !.task[t].pc = "send"]
       [] me.op = "connect" ->
            IF me.k < 6 THEN [S EXCEPT !.task[t].k = me.k + 1, !.task[t].pc = "send"]
            ELSE At_pc(S, t, "sleep2")
       [] me.op = "poll" -> At_pc(S, t, "poll_sleep")

\* one statement of task t that does not suspend it
Micro(S, t) ==
  LET me == S.task[t]
      f == Frame(me.op, me.arg, me.k)
  IN CASE me.pc = "validate_level" ->
            IF ~ValidLevel(me.arg) THEN Finish(S, t, "ValueError")
            ELSE [S EXCEPT !.task[t].k = 1, !.task[t].pc = "send"]
       [] me.pc = "validate_group" ->
            IF ~ValidGroup(me.arg) THEN Finish(S, t, "ValueError")
            ELSE [S EXCEPT !.task[t].k = 1, !.task[t].pc = "send"]
       \* _send_command
       [] me.pc = "send" ->
            IF NotConnected(S) THEN Raise(S, t, "DPS150ConnectionError")
            ELSE IF ~encode_packet(f.command, f.type_code, f.data).ok
            THEN Raise(S, t, "ValueError")
            ELSE At_pc(S, t, "acquire")
       [] me.pc = "acquire" ->
            IF LockFree(S.lock)
            THEN [S EXCEPT !.lock.holder = t, !.task[t].pc = "write"]
            ELSE [S EXCEPT !.lock.waiters = Append(@, t), !.task[t].pc = "wait_lock"]
       \* await self.transport.write(packet), up to the transport's lock
       [] me.pc = "write" ->
            IF S.transport = 0 THEN Raise(S, t, "AttributeError")
            ELSE IF ~S.transports[S.transport].connected
                    \/ S.transports[S.transport].writer = "none"
            THEN Raise(S, t, "DPS150ConnectionError")
            ELSE [S EXCEPT !.task[t].tr = S.transport, !.task[t].pc = "tr_acquire"]
       [] me.pc = "tr_acquire" ->
            IF LockFree(S.transports[me.tr].lock)
            THEN [S EXCEPT !.transports[me.tr].lock.holder = t, !.task[t].pc = "tr_write"]
            ELSE [S EXCEPT !.transports[me.tr].lock.waiters = Append(@, t),
                           !.task[t].pc = "wait_tr_lock"]
       \* self.writer.write(data); await self.writer.drain()
       [] me.pc = "tr_write" ->
            IF S.transports[me.tr].writer = "none" THEN Raise(S, t, "AttributeError")
            ELSE LET packet == encode_packet(f.command, f.type_code, f.data).packet
                 IN [S EXCEPT !.task[t].sent = Append(@, packet),
                              !.transports[me.tr].first = IF @ = <<>> THEN packet ELSE @,
                              !.task[t].pc = "drain"]
       [] me.pc = "after_send" -> AfterSend(S, t)
       [] me.pc = "after_sleep" -> AfterSleep(S, t)
       [] me.pc = "after_sleep2" -> Finish(S, t, "ok")
       \* connect
       [] me.pc = "cn_start" ->
            IF Attached(S) THEN Finish(S, t, "ok")
            ELSE LET id == CHOOSE i \in FreeTransports(S) :
                                 \A j \in FreeTransports(S) : i <= j
                 IN [S EXCEPT !.transports[id] = NewTransport,
                              !.transport = id,
                              !.task[t].tr = id,
                              !.task[t].pc = "open"]
       [] me.pc = "init" -> [S EXCEPT !.task[t].k = 1, !.task[t].pc = "send"]
       \* disconnect
       [] me.pc = "dc_start" ->
            IF S.polling_task = "none" THEN At_pc(S, t, "dc_notice")
            ELSE LET p == S.polling_task
                 IN IF S.task[p].pc = "done"
                    THEN [S EXCEPT !.polling_task = "none", !.task[t].pc = "dc_notice"]
                    ELSE [S EXCEPT !.task[p].cancel = TRUE, !.task[t].aw = p,
                                   !.task[t].pc = "await_poll"]
       [] me.pc = "dc_notice" ->
            IF Attached(S) THEN [S EXCEPT !.task[t].k = 1, !.task[t].pc = "send"]
            ELSE At_pc(S, t, "dc_td")
       \* SerialTransport.disconnect
       [] me.pc = "dc_td" ->
            IF S.transport = 0 THEN Finish(S, t, "ok")
            ELSE LET id == S.transport
                     T == S.transports[id]
                 IN IF T.reader_task /\ T.reader # "done"
                    THEN [S EXCEPT !.transports[id].connected = FALSE,
                                   !.transports[id].reader = "cancelled",
                                   !.task[t].tr = id, !.task[t].pc = "await_reader"]
                    ELSE [S EXCEPT !.transports[id].connected = FALSE,
                                   !.transports[id].reader_task = FALSE,
                                   !.task[t].tr = id, !.task[t].pc = "td_writer"]
       [] me.pc = "td_writer" ->
            IF S.transports[me.tr].writer # "none"
            THEN [S EXCEPT !.transports[me.tr].writer = "closed", !.task[t].pc = "wait_closed"]
            ELSE At_pc(S, t, "td_done")
       [] me.pc = "td_done" ->
            Finish([S EXCEPT !.transports[me.tr].buffer = <<>>, !.transport = 0], t, "ok")
       \* on_state_update
       [] me.pc = "osu" ->
            IF NeedsPollTask(S)
            THEN LET p == IF "poll1" \in FreePollers(S) THEN "poll1" ELSE "poll2"
                 IN Finish([S EXCEPT !.callbacks = Append(@, Listener(me.arg)),
                                     !.polling_task = p,
                                     !.task[p] = [NoCall EXCEPT !.op = "poll", !.pc = "created"]],
                           t, "ok")
            ELSE Finish([S EXCEPT !.callbacks = Append(@, Listener(me.arg))], t, "ok")
       \* _polling_loop
       [] me.pc = "poll_check" ->
            IF Attached(S)
            THEN [S EXCEPT !.task[t].k = 1, !.task[t].sent = <<>>, !.task[t].pc = "send"]
            ELSE At_pc(S, t, "done")

\* task t runs up to its next suspension
RECURSIVE Run(_, _)
Run(S, t) == IF S.task[t].pc \in SuspendedPcs THEN S ELSE Run(Micro(S, t), t)

\* whether the await task t is suspended at can complete
CanResume(S, t) ==
  LET me == S.task[t]
  IN /\ ~me.cancel
     /\ CASE me.pc \in {"drain", "settle", "sleep", "sleep2", "open", "wait_closed",
                        "created", "poll_sleep", "poll_err_sleep"} -> TRUE
          [] me.pc = "wait_lock" -> LockHead(S.lock, t)
          [] me.pc = "wait_tr_lock" -> LockHead(S.transports[me.tr].lock, t)
          [] me.pc = "await_poll" -> S.task[me.aw].pc = "done"
          [] me.pc = "await_reader" -> S.transports[me.tr].reader = "done"
          [] OTHER -> FALSE

\* the await of task t completes; opened tells whether the serial port opened
Wake(S, t, opened) ==
  LET me == S.task[t]
  IN CASE me.pc = "wait_lock" ->
            [S EXCEPT !.lock = [holder |-> t, waiters |-> Tail(S.lock.waiters)],
                      !.task[t].pc = "write"]
       [] me.pc = "wait_tr_lock" ->
            [S EXCEPT !.transports[me.tr].lock =
                        [holder |-> t, waiters |-> Tail(S.transports[me.tr].lock.waiters)],
                      !.task[t].pc = "tr_write"]
       [] me.pc = "drain" -> At_pc(S, t, "settle")
       [] me.pc = "settle" ->
            [ReleaseAll(S, t) EXCEPT !.task[t].tr = 0, !.task[t].pc = "after_send"]
       [] me.pc = "sleep" -> At_pc(S, t, "after_sleep")
       [] me.pc = "sleep2" -> At_pc(S, t, "after_sleep2")
       \* SerialTransport.connect after open_serial_connection
       [] me.pc = "open" ->
            IF opened
            THEN [S EXCEPT !.transports[me.tr] =
                             [@ EXCEPT !.connected = TRUE, !.writer = "open", !.buffer = <<>>,
                                       !.reader_task = TRUE, !.reader = "running"],
                           !.task[t].pc = "init"]
            ELSE Finish([S EXCEPT !.transports[me.tr].connected = FALSE],
                        t, "DPS150ConnectionError")
       [] me.pc = "await_poll" ->
            [S EXCEPT !.polling_task = "none", !.task[t].pc = "dc_notice"]
       [] me.pc = "await_reader" ->
            [S EXCEPT !.transports[me.tr].reader_task = FALSE, !.task[t].pc = "td_writer"]
       [] me.pc = "wait_closed" ->
            [S EXCEPT !.transports[me.tr].writer = "none", !.task[t].pc = "td_done"]
       [] me.pc = "created" -> At_pc(S, t, "poll_check")
       [] me.pc \in {"poll_sleep", "poll_err_sleep"} -> At_pc(S, t, "poll_check")

Becomes(S) ==
  /\ transport' = S.transport
  /\ transports' = S.transports
  /\ lock' = S.lock
  /\ callbacks' = S.callbacks
  /\ polling_task' = S.polling_task
  /\ task' = S.task
  /\ state' = S.state
  /\ info' = S.info

\* the first position of a public operation
Entry(op) ==
  CASE op \in {"set_brightness", "set_volume"} -> "validate_level"
    [] op \in {"set_group", "load_group"} -> "validate_group"
    [] op \in FloatSetters \cup Switches \cup {"get_all"} -> "init"
    [] op = "connect" -> "cn_start"
    [] op = "disconnect" -> "dc_start"
    [] op = "on_state_update" -> "osu"

\* what the model leaves out to stay finite
WithinBounds(S, op, most) ==
  /\ (op = "connect" /\ ~Attached(S)) => FreeTransports(S) # {}
  /\ op = "on_state_update" =>
       /\ Len(S.callbacks) < most
       /\ NeedsPollTask(S) => FreePollers(S) # {}

\* caller t calls the public operation c = [op, arg] and runs to its first suspension
\* while at most `most` listeners get registered
CallUpTo(t, c, most) ==
  /\ task[t].pc \in {"idle", "ret"}
  /\ WithinBounds(Session, c.op, most)
  /\ Becomes(Run([Session EXCEPT !.task[t] =
                    [NoCall EXCEPT !.op = c.op, !.arg = c.arg, !.pc = Entry(c.op),
                                   !.att0 = Attached(Session)]], t))
  /\ UNCHANGED <<codecVars, framerVars, last, pending, received, script>>

Call(t, c) == CallUpTo(t, c, MaxListeners)

\* the await a task is suspended at completes and the task runs on
Resume(t) ==
  /\ CanResume(Session, t)
  /\ \E opened \in (IF task[t].pc = "open" THEN BOOLEAN ELSE {TRUE}) :
       Becomes(Run(Wake(Session, t, opened), t))
  /\ UNCHANGED <<codecVars, framerVars, last, pending, received, script>>

\* CancelledError is thrown into a cancelled poll task at the await it is
\* suspended at: the locks it holds or waits for are released and the task ends
Cancelled(p) ==
  /\ task[p].cancel
  /\ task[p].pc \in SuspendedPcs \ {"unborn", "done"}
  /\ Becomes([ReleaseAll(Session, p) EXCEPT !.task[p].pc = "done",
                                            !.task[p].cancel = FALSE,
                                            !.task[p].tr = 0])
  /\ UNCHANGED <<codecVars, framerVars, last, pending, received, script>>

\* await self.writer.drain() raises an I/O error in task t
WriteFails(t) ==
  /\ task[t].pc = "drain"
  /\ ~task[t].cancel
  /\ Becomes(Run(Raise(Session, t, "OSError"), t))
  /\ UNCHANGED <<codecVars, framerVars, last, pending, received, script>>

\* the loop over the packets left at the first packet that does not decode
RECURSIVE dispatch_stops_at_bad(_, _, _, _)
dispatch_stops_at_bad(packets, cbs, seq, acc) ==
  IF packets = <<>> THEN acc
  ELSE LET d == decode_packet(Head(packets))
       IN IF ~d.ok THEN acc
          ELSE LET h == on_packet_received(acc.state, acc.info, cbs, d.type_code, d.data)
               IN dispatch_stops_at_bad(Tail(packets), cbs, seq,
                           [state |-> h.state, info |-> h.info,
                            last |-> [seq |-> seq,
                                      type_code |-> d.type_code, data |-> d.data,
                                      before |-> acc.state, info_before |-> acc.info,
                                      listeners |-> cbs, log |-> h.log,
                                      raised |-> h.raised,
                                      calls |-> acc.last.calls + Len(h.log)]])

\* for packet in packets: decode_packet, then the callback; a packet that does
\* not decode is skipped.  acc is [state, info, last]; seq numbers the chunk,
\* last.calls counts the listener calls made so far.
RECURSIVE dispatch(_, _, _, _)
dispatch(packets, cbs, seq, acc) ==
  IF packets = <<>> THEN acc
  ELSE LET d == decode_packet(Head(packets))
       IN IF ~d.ok THEN dispatch(Tail(packets), cbs, seq, acc)
          ELSE LET h == on_packet_received(acc.state, acc.info, cbs, d.type_code, d.data)
               IN dispatch(Tail(packets), cbs, seq,
                           [state |-> h.state, info |-> h.info,
                            last |-> [seq |-> seq,
                                      type_code |-> d.type_code, data |-> d.data,
                                      before |-> acc.state, info_before |-> acc.info,
                                      listeners |-> cbs, log |-> h.log,
                                      raised |-> h.raised,
                                      calls |-> acc.last.calls + Len(h.log)]])

\* one round of _read_loop of transport id: reader.read returns chunk, which is
\* appended to the buffer; the packets extracted are decoded and dispatched
Receive(id) ==
  /\ transports[id].reader = "running"
  /\ pending # <<>>
  /\ LET chunk == Head(pending)
         r == extract_packets(append(transports[id].buffer, chunk))
         out == dispatch(r.packets, callbacks, received + 1,
                         [state |-> state, info |-> info, last |-> last])
     IN /\ transports' = [transports EXCEPT ![id].buffer = r.buffer]
        /\ state' = out.state
        /\ info' = out.info
        /\ last' = out.last
  /\ pending' = Tail(pending)
  /\ received' = received + 1
  /\ UNCHANGED script
  /\ UNCHANGED <<transport, lock, callbacks, polling_task, task>>
  /\ UNCHANGED <<codecVars, framerVars>>

\* what a consumer does to the DeviceState object it holds: it assigns a field
Touch(st) == [st EXCEPT !["volume"] = 9]

\* callback(self.state): a listener was handed the session's own DeviceState
\* object; it (or whoever it passed the object to) assigns a field of it
ListenerWrites ==
  /\ last.calls > 0
  /\ state # Touch(state)
  /\ state' = Touch(state)
  /\ UNCHANGED <<info, last, pending, received, script>>
  /\ UNCHANGED <<transport, transports, lock, callbacks, polling_task, task>>
  /\ UNCHANGED <<codecVars, framerVars>>

\* return self.state: the caller of get_all was handed the session's own
\* DeviceState object; it assigns a field of it
CallerWrites(t) ==
  /\ task[t].op = "get_all" /\ task[t].pc = "ret" /\ task[t].res = "ok"
  /\ state # Touch(state)
  /\ state' = Touch(state)
  /\ UNCHANGED <<info, last, pending, received, script>>
  /\ UNCHANGED <<transport, transports, lock, callbacks, polling_task, task>>
  /\ UNCHANGED <<codecVars, framerVars>>

\* a read loop that swallows the cancellation and goes on waiting for bytes
ReaderCancelled_swallowed(id) ==
  /\ transports[id].reader = "cancelled"
  /\ transports' = [transports EXCEPT ![id].reader = "running"]
  /\ UNCHANGED <<transport, lock, callbacks, polling_task, task>>
  /\ UNCHANGED <<codecVars, framerVars, inboundVars>>

\* the cancelled _read_loop task ends
ReaderCancelled(id) ==
  /\ transports[id].reader = "cancelled"
  /\ transports' = [transports EXCEPT ![id].reader = "done"]
  /\ UNCHANGED <<transport, lock, callbacks, polling_task, task>>
  /\ UNCHANGED <<codecVars, framerVars, inboundVars>>

\* _read_loop of transport id leaves its loop by itself: reader.read returned
\* b"" (end of file) or raised an unexpected error; `break` ends the task and
\* nothing else is assigned
ReaderEnds(id) ==
  /\ transports[id].reader = "running"
  /\ transports' = [transports EXCEPT ![id].reader = "done"]
  /\ UNCHANGED <<transport, lock, callbacks, polling_task, task>>
  /\ UNCHANGED <<codecVars, framerVars, inboundVars>>

Levels == {0 - 1, 0, 10, 11}
Groups == {0, 1, 6, 7}

\* the calls of an application that uses the session from one task
SequentialCalls ==
  {[op |-> o, arg |-> 0] : o \in {"connect", "disconnect", "on_state_update", "get_all"}}
  \cup {[op |-> o, arg |-> Volts12] : o \in FloatSetters}
  \cup {[op |-> o, arg |-> 0] : o \in Switches}
  \cup {[op |-> o, arg |-> v] : o \in {"set_brightness", "set_volume"}, v \in Levels}
  \cup {[op |-> o, arg |-> g] : o \in {"set_group", "load_group"}, g \in Groups}

\* the calls of two application tasks that share the session: the first
\* connects, disconnects and registers listeners, the second sets the voltage
\* and may also register a listener or disconnect
ConcurrentCalls(t) ==
  IF t = "app1"
  THEN {[op |-> o, arg |-> 0] : o \in {"connect", "disconnect", "on_state_update"}}
  ELSE {[op |-> o, arg |-> 0] : o \in {"disconnect", "on_state_update"}}
       \cup {[op |-> "set_voltage", arg |-> Volts12]}

SessionStart == SessionInit /\ CodecIdle /\ FramerIdle

Background ==
  \/ \E p \in Pollers : Resume(p)
  \/ \E p \in Pollers : Cancelled(p)
  \/ \E id \in DOMAIN transports : ReaderCancelled(id)

OpsNext ==
  \/ \E c \in SequentialCalls : Call("app1", c)
  \/ Resume("app1")
  \/ Background

SpecOps == SessionStart /\ [][OpsNext]_vars

Next ==
  \/ \E t \in Callers : \E c \in ConcurrentCalls(t) : Call(t, c)
  \/ \E t \in Callers : Resume(t)
  \/ Background

Spec == SessionStart /\ [][Next]_vars

\* an application task that connects and registers listeners while the device
\* sends frames; the poll tasks, which only write, are not scheduled here
InboundCalls ==
  {[op |-> "connect", arg |-> 0]} \cup {[op |-> "on_state_update", arg |-> a] : a \in {0, 1}}

InboundNext ==
  \/ \E c \in InboundCalls : Call("app1", c)
  \/ Resume("app1")
  \/ \E id \in DOMAIN transports : Receive(id)

InboundStart == InboundInit /\ CodecIdle /\ FramerIdle

SpecInbound == InboundStart /\ [][InboundNext]_vars

\* one application task that opens and closes sessions, reads the state and
\* registers a listener, with consumers that write to the objects they hold
SessionsCalls ==
  {[op |-> o, arg |-> 0] : o \in {"connect", "disconnect", "on_state_update", "get_all"}}

SessionsNext ==
  \/ \E c \in SessionsCalls : Call("app1", c)
  \/ Resume("app1")
  \/ Background
  \/ \E id \in DOMAIN transports : Receive(id)
  \/ ListenerWrites
  \/ CallerWrites("app1")

SessionsStart == SessionsInit /\ CodecIdle /\ FramerIdle

SpecSessions == SessionsStart /\ [][SessionsNext]_vars

StreamStart == StreamInit /\ CodecIdle /\ FramerIdle

SpecStream == StreamStart /\ [][InboundNext]_vars

\* one application task on a serial line whose writes can fail
FaultCalls ==
  {[op |-> o, arg |-> 0] : o \in {"connect", "disconnect", "on_state_update", "get_all"}}

FaultsNext ==
  \/ \E c \in FaultCalls : Call("app1", c)
  \/ Resume("app1")
  \/ Background
  \/ \E t \in {"app1"} \cup Pollers : WriteFails(t)

SpecFaults == SessionStart /\ [][FaultsNext]_vars

\* one application task that connects, registers a listener, sets values and
\* reads the state while the poll task runs and the device sends frames
MixedCalls ==
  {[op |-> o, arg |-> 0] : o \in {"connect", "on_state_update", "get_all"}}
  \cup {[op |-> "set_voltage", arg |-> Volts12], [op |-> "set_group", arg |-> 1]}

MixedNext ==
  \/ \E c \in MixedCalls : Call("app1", c)
  \/ Resume("app1")
  \/ \E p \in Pollers : Resume(p)
  \/ \E id \in DOMAIN transports : Receive(id)

MixedInit ==
  /\ Constructed
  /\ pending \in MixedScripts
  /\ script = pending

MixedStart == MixedInit /\ CodecIdle /\ FramerIdle

SpecMixed == MixedStart /\ [][MixedNext]_vars

\* one application task on a serial line that can reach end of file or fail
\* while it is read
LineCalls ==
  {[op |-> o, arg |-> 0] : o \in {"connect", "disconnect", "on_state_update"}}
  \cup {[op |-> "set_voltage", arg |-> Volts12]}

LineNext ==
  \/ \E c \in LineCalls : Call("app1", c)
  \/ Resume("app1")
  \/ Background
  \/ \E id \in DOMAIN transports : ReaderEnds(id)

SpecLine == SessionStart /\ [][LineNext]_vars

\* one application task that opens and closes sessions with a device that
\* never sends a byte.  The event loop runs every task whose await can
\* complete: each write, sleep and close completes, a cancelled task is thrown
\* its CancelledError, and the read loop's wait_for ends when it is cancelled.
ShutdownCalls ==
  {[op |-> o, arg |-> 0] : o \in {"connect", "disconnect", "on_state_update"}}

ShutdownNext ==
  \/ \E c \in ShutdownCalls : Call("app1", c)
  \/ Resume("app1")
  \/ Background

\* weak fairness of Resume(t), with its enabling condition written out: a task
\* whose await can complete for good is run again and again
Scheduled(t) == <>[]CanResume(Session, t) => []<><<Resume(t)>>_vars

SpecShutdown ==
  /\ SessionStart
  /\ [][ShutdownNext]_vars
  /\ \A t \in {"app1"} \cup Pollers : Scheduled(t)
  /\ \A p \in Pollers : WF_vars(Cancelled(p))
  /\ \A id \in 1..MaxTransports : WF_vars(ReaderCancelled(id))

\* one application task that opens and closes the session while another one
\* registers up to MaxRegistrations listeners
PollCalls(t) ==
  IF t = "app1"
  THEN {[op |-> o, arg |-> 0] : o \in {"connect", "disconnect"}}
  ELSE {[op |-> "on_state_update", arg |-> 0]}

PollsNext ==
  \/ \E t \in Callers : \E c \in PollCalls(t) : CallUpTo(t, c, MaxRegistrations)
  \/ \E t \in Callers : Resume(t)
  \/ Background

SpecPolls == SessionStart /\ [][PollsNext]_vars

\* two application tasks that both connect; the first also disconnects
ConnectCalls(t) ==
  IF t = "app1"
  THEN {[op |-> o, arg |-> 0] : o \in {"connect", "disconnect"}}
  ELSE {[op |-> "connect", arg |-> 0]}

ConnectsNext ==
  \/ \E t \in Callers : \E c \in ConnectCalls(t) : Call(t, c)
  \/ \E t \in Callers : Resume(t)
  \/ \E id \in DOMAIN transports : ReaderCancelled(id)

SpecConnects == SessionStart /\ [][ConnectsNext]_vars

-----------------------------------------------------------------------------
(* Claims about the session *)

LevelOps == {"set_brightness", "set_volume"}
GroupOps == {"set_group", "load_group"}
WriteOps == LevelOps \cup GroupOps \cup {"set_voltage", "get_all"}

\* the argument of a returned call is outside the domain of its operation
OutOfDomain(c) ==
  \/ c.op \in LevelOps /\ (c.arg < 0 \/ c.arg > 10)
  \/ c.op \in GroupOps /\ (c.arg < 1 \/ c.arg > 6)

\* the argument of a returned call is a boundary value of its domain
OnBoundary(c) ==
  \/ c.op \in LevelOps /\ c.arg \in {0, 10}
  \/ c.op \in GroupOps /\ c.arg \in {1, 6}

\* the number of frames a completed operation writes
FramesOf(op) ==
  CASE op \in LevelOps \cup {"set_voltage", "get_all"} -> 1
    [] op = "set_group" -> 4
    [] op = "load_group" -> 3

\* C8: set_brightness / set_volume with a value outside 0..10 and set_group /
\* load_group with a group outside 1..6 raise ValueError and write nothing to the
\* transport, whether or not the session was connected when they were called;
\* the boundary values 0, 10 and 1, 6 never raise ValueError, and on a connected
\* session the call returns normally after writing all its frames.
C8_ValidationPrecedesWrite ==
  \A t \in Callers :
    LET c == task[t]
    IN c.pc = "ret" =>
         /\ OutOfDomain(c) => c.res = "ValueError" /\ c.sent = <<>>
         /\ OnBoundary(c) =>
              /\ c.res # "ValueError"
              /\ c.att0 => c.res = "ok" /\ Len(c.sent) = FramesOf(c.op)

\* C8 witness: set_brightness(11) on a connected session has raised ValueError
C8_Witness ==
  /\ task["app1"].pc = "ret"
  /\ task["app1"].op = "set_brightness"
  /\ task["app1"].arg = 11
  /\ task["app1"].att0
  /\ task["app1"].res = "ValueError"
  /\ task["app1"].sent = <<>>

\* C9: an operation that writes, called with arguments in its domain while no
\* connected transport is attached (never connected, open failed, or disconnect
\* completed), raises DPS150ConnectionError to its caller and writes no byte.
C9_WriteWithoutTransport ==
  \A t \in Callers :
    LET c == task[t]
    IN (c.pc = "ret" /\ c.op \in WriteOps /\ ~OutOfDomain(c) /\ ~c.att0)
         => c.res = "DPS150ConnectionError" /\ c.sent = <<>>

\* C9 witness: set_voltage was called after a disconnect that tore down an
\* opened transport had completed, and has raised DPS150ConnectionError
C9_Witness ==
  /\ task["app1"].pc = "ret"
  /\ task["app1"].op = "set_voltage"
  /\ ~task["app1"].att0
  /\ task["app1"].res = "DPS150ConnectionError"
  /\ transport = 0
  /\ \E id \in DOMAIN transports :
       transports[id].reader = "done" /\ transports[id].writer = "none"

\* the tasks between writer.write and the end of the settle delay
InTransmit == {t \in Tasks : task[t].pc \in {"drain", "settle"}}

\* C10: in every interleaving of the application tasks, the poll tasks, the
\* init sequence and disconnect, at most one task is between writer.write and
\* the end of the settle delay, and that task holds the session's lock.
C10_TransmitExclusive ==
  /\ Cardinality(InTransmit) <= 1
  /\ \A t \in InTransmit : lock.holder = t

\* C10 witness: a poll task is in the transmit section while an application
\* task that wants to write waits for the lock
C10_Witness ==
  \E p \in Pollers, t \in Callers :
    /\ p \in InTransmit
    /\ task[t].pc = "wait_lock"
    /\ task[t].op = "set_voltage"

\* the type code the claim names for each single-field setter
FieldCode(op) ==
  CASE op = "set_voltage" -> 193
    [] op = "set_current" -> 194
    [] op = "set_ovp" -> 209
    [] op = "set_ocp" -> 210
    [] op = "set_opp" -> 211
    [] op = "set_otp" -> 212
    [] op = "set_lvp" -> 213
    [] op = "set_brightness" -> 214
    [] op = "set_volume" -> 215
    [] op \in {"start_metering", "stop_metering"} -> 216
    [] op \in {"enable_output", "disable_output"} -> 219

FieldSetters ==
  {"set_voltage", "set_current", "set_ovp", "set_ocp", "set_opp", "set_otp", "set_lvp",
   "set_brightness", "set_volume", "enable_output", "disable_output",
   "start_metering", "stop_metering"}

\* C11: a single-field setter called with a valid argument on a connected
\* session returns after exactly one transport write, of one frame whose header
\* is 0xF1, whose command is SET (0xB1) and whose type code is the field's code;
\* while the call is still running it has written no other frame.
C11_SetterWritesOneFrame ==
  \A t \in Callers :
    LET c == task[t]
    IN (c.op \in FieldSetters /\ ~OutOfDomain(c) /\ c.att0) =>
         /\ Len(c.sent) <= 1
         /\ c.pc = "ret" => c.res = "ok" /\ Len(c.sent) = 1
         /\ \A i \in DOMAIN c.sent :
              /\ c.sent[i][1] = 241
              /\ c.sent[i][2] = 177
              /\ c.sent[i][3] = FieldCode(c.op)
              /\ Len(c.sent[i]) = 5 + c.sent[i][4]

\* C11 witness: set_ovp on a connected session has returned after writing its frame
C11_Witness ==
  /\ task["app1"].pc = "ret"
  /\ task["app1"].op = "set_ovp"
  /\ task["app1"].att0
  /\ task["app1"].res = "ok"
  /\ Len(task["app1"].sent) = 1

\* an outbound frame with its checksum, written out byte by byte
Wire(command, type_code, data) ==
  <<241, command, type_code, Len(data)>> \o data
    \o <<(type_code + Len(data) + ByteSum(data)) % 256>>

\* the frames the claim lists for set_group(g, 5.0, 0.5), in order
GroupFrames(g) ==
  <<Wire(177, 193, <<0, 0, 160, 64>>),
    Wire(177, 194, <<0, 0, 0, 63>>),
    Wire(177, 197 + 2 * (g - 1), <<0, 0, 160, 64>>),
    Wire(177, 198 + 2 * (g - 1), <<0, 0, 0, 63>>)>>

IsPrefix(s, full) == Len(s) <= Len(full) /\ s = SubSeq(full, 1, Len(s))

\* C12: set_group(g, v, c) with 1 <= g <= 6 on a connected session writes SET
\* 193, SET 194, SET 197 + 2(g-1), SET 198 + 2(g-1) in that order: what it has
\* written is at every moment a prefix of that list, and all of it on return.
C12_SetGroupOrder ==
  \A t \in Callers :
    LET c == task[t]
    IN (c.op = "set_group" /\ c.arg >= 1 /\ c.arg <= 6 /\ c.att0) =>
         /\ IsPrefix(c.sent, GroupFrames(c.arg))
         /\ c.pc = "ret" => c.res = "ok" /\ c.sent = GroupFrames(c.arg)

\* C12 witness: set_group(6, 5.0, 0.5) has written the two live set-point frames
\* and the group-6 voltage frame, and is about to write the group-6 current frame
C12_Witness ==
  /\ task["app1"].op = "set_group"
  /\ task["app1"].arg = 6
  /\ task["app1"].att0
  /\ Len(task["app1"].sent) = 3
  /\ task["app1"].sent[3][3] = 207

\* the frames the claim lists for connect(), in order
InitFrames ==
  <<Wire(193, 0, <<1>>),
    Wire(176, 0, <<5>>),
    Wire(161, 222, <<>>),
    Wire(161, 223, <<>>),
    Wire(161, 224, <<>>),
    Wire(161, 255, <<>>)>>

\* C16: connect() on a disconnected session writes announce, baud index 5, GET
\* 222, GET 223, GET 224, GET 255 in that order: what it has written is at every
\* moment a prefix of that list and all of it on return, the first packet any
\* transport ever carries is the announce frame, and connect() returns although
\* no inbound byte was read.
C16_InitSequence ==
  /\ \A t \in Callers :
       LET c == task[t]
       IN (c.op = "connect" /\ ~c.att0) =>
            /\ IsPrefix(c.sent, InitFrames)
            /\ (c.pc = "ret" /\ c.res = "ok") => c.sent = InitFrames
  /\ \A id \in DOMAIN transports :
       transports[id].first # <<>> => transports[id].first = InitFrames[1]

\* C16 witness: connect() has returned after its six frames, no byte was received
C16_Witness ==
  /\ task["app1"].op = "connect"
  /\ task["app1"].pc = "ret"
  /\ task["app1"].res = "ok"
  /\ ~task["app1"].att0
  /\ Len(task["app1"].sent) = 6
  /\ received = 0

\* a poll task that has been created and has not ended
AlivePollers == {p \in Pollers : task[p].pc \notin {"unborn", "done"}}

\* C15: whenever the session is connected, at least one listener is registered
\* and no public operation is in progress, a poll task is alive that goes on
\* requesting the whole state, whether the listener was registered before or
\* after connect() and also after disconnect() followed by connect().
C15_PollingWhileConnected ==
  (/\ Attached(Session)
   /\ callbacks # <<>>
   /\ \A t \in Callers : task[t].pc \in {"idle", "ret"})
    => \E p \in AlivePollers : polling_task = p

\* the termination notice: command 0xC1, type 0, payload [0]
Notice == Wire(193, 0, <<0>>)

\* C17: disconnect() on a connected session stops the poll task before it
\* writes the termination notice, keeps the transport open until the attempt to
\* write the notice is over, and then releases the transport; it returns
\* normally with the transport released also when the write of the notice fails.
C17_DisconnectOrder ==
  \A t \in Callers :
    LET c == task[t]
    IN (c.op = "disconnect" /\ c.att0) =>
         /\ c.pc = "await_poll" => c.sent = <<>> /\ Attached(Session)
         /\ c.sent # <<>> =>
              c.sent = <<Notice>> /\ AlivePollers = {} /\ polling_task = "none"
         /\ c.pc \in {"wait_lock", "wait_tr_lock", "drain", "settle"} =>
              /\ Attached(Session)
              /\ transports[transport].writer = "open"
              /\ transports[transport].reader = "running"
         /\ c.pc = "ret" =>
              /\ c.res = "ok"
              /\ c.sent = <<Notice>>
              /\ transport = 0
              /\ \A id \in DOMAIN transports :
                   /\ ~transports[id].connected
                   /\ transports[id].writer = "none"
                   /\ transports[id].reader \in {"none", "done"}

\* C17 witness: the write of the notice failed with an I/O error, and
\* disconnect() has returned normally with the transport released
C17_Witness ==
  /\ task["app1"].op = "disconnect"
  /\ task["app1"].att0
  /\ task["app1"].pc = "ret"
  /\ task["app1"].exc = "OSError"
  /\ task["app1"].res = "ok"
  /\ transport = 0

-----------------------------------------------------------------------------
(* Claims about inbound frames *)

\* the packet handled last made _parse_packet_data return fields
Yielded == last.seq > 0 /\ DOMAIN parse_packet_data(last.type_code, last.data).result # {}

\* the listeners called for the packet handled last are all the registered
\* ones, each once, in registration order
AllNotified ==
  /\ Len(last.log) = Len(last.listeners)
  /\ \A i \in DOMAIN last.log : last.log[i].listener = i

\* C13: when a listener raises while a frame is dispatched, every registered
\* listener is still called for that frame, the snapshot holds the frame's
\* whole update, nothing is raised out of the packet handler and the read loop
\* keeps running; and with a raising listener registered, every later chunk that
\* yields fields is dispatched as well.
C13_ListenerIsolation ==
  /\ [](( \E i \in DOMAIN last.log : last.log[i].raised ) =>
          /\ AllNotified
          /\ state = update_from_dict(last.before,
                                       parse_packet_data(last.type_code, last.data).result)
          /\ last.raised = "none"
          /\ \E id \in DOMAIN transports : transports[id].reader = "running")
  /\ [][(/\ received' = received + 1
          /\ \E i \in DOMAIN callbacks : callbacks[i] = "raises"
          /\ LET d == decode_packet(Head(pending))
             IN DOMAIN parse_packet_data(d.type_code, d.data).result # {})
          => (last'.seq = received' /\ Len(last'.log) = Len(callbacks))]_vars

\* C13 witness: the second frame of the stream was dispatched to a listener that
\* raised and then to one that returned, after the first frame changed the snapshot
C13_Witness ==
  /\ last.seq = 2
  /\ last.before # DeviceState
  /\ last.listeners = <<"raises", "returns">>
  /\ Len(last.log) = 2
  /\ last.log[1].raised
  /\ ~last.log[2].raised
  /\ state # last.before

\* C14: for a frame that yields fields every registered listener is called once,
\* in registration order, and is handed the snapshot with all of the frame's
\* fields applied; and the snapshot only ever changes by one frame's whole update.
C14_BatchedPerFrame ==
  /\ [](Yielded =>
          /\ AllNotified
          /\ \A i \in DOMAIN last.log :
               /\ last.log[i].saw = state
               /\ last.type_code = OUTPUT_VOLTAGE_CURRENT_POWER =>
                    /\ last.log[i].saw["output_voltage"] = Slice(last.data, 0, 4)
                    /\ last.log[i].saw["output_current"] = Slice(last.data, 4, 8)
                    /\ last.log[i].saw["output_power"] = Slice(last.data, 8, 12))
  /\ [][state' # state =>
          state' = update_from_dict(state,
                                    parse_packet_data(last'.type_code, last'.data).result)]_vars

\* C14 witness: two listeners were handed the snapshot holding all three values
\* of an output voltage / current / power frame
C14_Witness ==
  /\ last.type_code = OUTPUT_VOLTAGE_CURRENT_POWER
  /\ Len(last.log) = 2
  /\ last.log[2].saw["output_voltage"] = FloatOf(41)
  /\ last.log[2].saw["output_current"] = FloatOf(42)
  /\ last.log[2].saw["output_power"] = FloatOf(43)
  /\ last.before["output_power"] = Zero

\* the float fields of the all-state payload in the order of their offsets
\* 0, 4, .., 92, then capacity, energy and the two limits
AllStateFloats ==
  <<"input_voltage", "set_voltage", "set_current", "output_voltage", "output_current",
    "output_power", "temperature",
    "group1_set_voltage", "group1_set_current", "group2_set_voltage", "group2_set_current",
    "group3_set_voltage", "group3_set_current", "group4_set_voltage", "group4_set_current",
    "group5_set_voltage", "group5_set_current", "group6_set_voltage", "group6_set_current",
    "over_voltage_protection", "over_current_protection", "over_power_protection",
    "over_temperature_protection", "low_voltage_protection">>

\* where the claim puts field f in the all-state payload: [first, last] offsets
OffsetsOf(f) ==
  IF \E j \in DOMAIN AllStateFloats : AllStateFloats[j] = f
  THEN LET j == CHOOSE i \in DOMAIN AllStateFloats : AllStateFloats[i] = f
       IN <<4 * (j - 1), 4 * (j - 1) + 3>>
  ELSE CASE f = "brightness" -> <<96, 96>>
         [] f = "volume" -> <<97, 97>>
         [] f = "metering_closed" -> <<98, 98>>
         [] f = "output_capacity" -> <<99, 102>>
         [] f = "output_energy" -> <<103, 106>>
         [] f = "output_closed" -> <<107, 107>>
         [] f = "protection_state" -> <<108, 108>>
         [] f = "mode" -> <<109, 109>>
         [] f = "upper_limit_voltage" -> <<111, 114>>
         [] f = "upper_limit_current" -> <<115, 118>>

\* the value of field f found at its offset in the all-state payload
ValueAt(f, data) ==
  LET o == OffsetsOf(f)[1]
  IN IF f \in {"brightness", "volume"} THEN data[o + 1]
     ELSE IF f = "metering_closed" THEN data[o + 1] = 0
     ELSE IF f = "output_closed" THEN data[o + 1] = 1
     ELSE IF f = "protection_state"
     THEN (IF data[o + 1] < 7 THEN PROTECTION_STATES[data[o + 1] + 1] ELSE "")
     ELSE IF f = "mode" THEN (IF data[o + 1] = 0 THEN "CC" ELSE "CV")
     ELSE SubSeq(data, o + 1, o + 4)

\* C18: after an all-state frame (type 255) with a payload of 119 bytes or more
\* every snapshot field holds the value found at its offset in the payload.
C18_AllStateNominal ==
  (last.seq > 0 /\ last.type_code = 255 /\ Len(last.data) >= 119) =>
    \A f \in StateFields : state[f] = ValueAt(f, last.data)

\* C19: after an all-state frame with a payload shorter than 119 bytes nothing
\* was raised, every field whose offsets lie within the payload holds the value
\* found there, and every other field holds the value it had before the frame.
C19_AllStateTruncated ==
  (last.seq > 0 /\ last.type_code = 255 /\ Len(last.data) < 119) =>
    /\ last.raised = "none"
    /\ \A f \in StateFields :
         state[f] = IF OffsetsOf(f)[2] < Len(last.data) THEN ValueAt(f, last.data)
                    ELSE last.before[f]

\* the snapshot field the claim gives for the type code of a single float32 field
FieldOfType(ty) ==
  CASE ty = 192 -> "input_voltage"
    [] ty = 193 -> "set_voltage"
    [] ty = 194 -> "set_current"
    [] ty = 196 -> "temperature"
    [] ty \in 197..213 -> AllStateFloats[ty - 189]
    [] ty = 217 -> "output_capacity"
    [] ty = 218 -> "output_energy"
    [] ty = 226 -> "upper_limit_voltage"
    [] ty = 227 -> "upper_limit_current"

SingleFloatTypes == {192, 193, 194, 196} \cup (197..213) \cup {217, 218, 226, 227}

\* C20: after a frame with the type code of a single float32 field and a 4-byte
\* payload, that field of the snapshot holds the payload's value and every other
\* field holds the value it had before the frame.
C20_SingleFloatFrame ==
  (last.seq > 0 /\ last.type_code \in SingleFloatTypes /\ Len(last.data) = 4) =>
    \A f \in StateFields :
      state[f] = IF f = FieldOfType(last.type_code) THEN last.data ELSE last.before[f]

-----------------------------------------------------------------------------
(* Claims about the encoder's argument check *)

\* C24: encode_packet called with a payload of more than 255 bytes raises
\* ValueError and returns no frame; and every frame it does return carries a
\* length byte equal to the length of its payload.
C24_LongPayloadRefused ==
  /\ (codec_pc # "input" /\ Len(data_in) > 255) =>
       /\ codec_pc = "raised"
       /\ ~encoded.ok /\ encoded.err = "ValueError"
       /\ pkt = <<>>
  /\ codec_pc = "encoded" =>
       /\ pkt[4] = Len(data_in)
       /\ Len(pkt) = 5 + pkt[4]
       /\ SubSeq(pkt, 5, 4 + pkt[4]) = data_in

\* C24 witness: the 256-byte payload was refused
C24_Witness ==
  /\ codec_pc = "raised" /\ Len(data_in) = 256
  /\ encoded.err = "ValueError" /\ pkt = <<>>

-----------------------------------------------------------------------------
(* Claims about damaged and out-of-range inbound frames *)

\* the frame handled last carries a protection index outside 0..6
ProtectionOutOfRange ==
  /\ last.seq > 0
  /\ \/ last.type_code = 220 /\ Len(last.data) = 1 /\ last.data[1] > 6
     \/ last.type_code = 255 /\ Len(last.data) >= 139 /\ last.data[109] > 6

\* C21: after a protection-state frame (type 220) or an all-state frame whose
\* protection index is outside 0..6, the snapshot's protection_state is NORMAL
\* (the empty string), whatever it was before, and the other fields of an
\* all-state frame hold the values of the frame.
C21_ProtectionOutOfRange ==
  ProtectionOutOfRange =>
    /\ state["protection_state"] = ""
    /\ last.type_code = 255 =>
         \A f \in StateFields \ {"protection_state"} : state[f] = ValueAt(f, last.data)

\* the values the valid frames behind the corrupt one carry
FollowersApplied ==
  /\ state["input_voltage"] = <<40, 0, 64, 65>>
  /\ (\E i \in DOMAIN script : Len(script[i]) > 18) => state["output_closed"] = TRUE

\* C27: when a frame with one corrupted byte (length, payload or checksum) is
\* followed by valid frames, then once all bytes of the stream have been read
\* every one of the following valid frames has been applied to the snapshot.
C27_CorruptFrameRecovery ==
  (script \in CorruptScripts /\ pending = <<>>) => FollowersApplied

\* what the well-formed frames among packets do, one after the other, to the
\* snapshot, the info and the number of listener calls
RECURSIVE ValidOnly(_, _, _)
ValidOnly(packets, cbs, acc) ==
  IF packets = <<>> THEN acc
  ELSE LET p == Head(packets)
           fields == parse_packet_data(p[3], SubSeq(p, 5, 4 + p[4]))
       IN IF C5_Malformed(p) \/ DOMAIN fields.result = {}
          THEN ValidOnly(Tail(packets), cbs, acc)
          ELSE ValidOnly(Tail(packets), cbs,
                         [state |-> update_from_dict(acc.state, fields.result),
                          info |-> update_info(acc.info, fields.result),
                          calls |-> acc.calls + Len(cbs)])

\* C28: when a chunk is read from which a frame is extracted that fails
\* decode_packet, the snapshot, the info and the number of listener calls
\* change exactly as the well-formed frames of that chunk make them change (the
\* failing frame changes no field and calls no listener, the frames extracted
\* behind it are dispatched), no task of a caller is touched and the read loop
\* keeps running.
C28_BadFrameDropped ==
  [][received' = received + 1 =>
       \E id \in DOMAIN transports :
         /\ transports[id].reader = "running"
         /\ LET r == extract_packets(transports[id].buffer \o Head(pending))
                v == ValidOnly(r.packets, callbacks,
                               [state |-> state, info |-> info, calls |-> last.calls])
            IN (\E k \in DOMAIN r.packets : C5_Malformed(r.packets[k])) =>
                 /\ state' = v.state
                 /\ info' = v.info
                 /\ last'.calls = v.calls
                 /\ transports'[id].reader = "running"
                 /\ task' = task]_vars

\* C28 witness: of a chunk holding a frame with a damaged payload byte and two
\* valid frames, the valid frames were applied and notified to the one listener
C28_Witness ==
  /\ script = <<Corrupt(FrameA, 4, 0) \o FrameB \o FrameC>>
  /\ pending = <<>>
  /\ last.listeners = <<"returns">>
  /\ last.calls = 2
  /\ state["temperature"] = Zero
  /\ state["input_voltage"] = <<40, 0, 64, 65>>
  /\ state["output_closed"] = TRUE
  /\ \E id \in DOMAIN transports : transports[id].reader = "running"

-----------------------------------------------------------------------------
(* Claims about the frames PacketBuffer.extract_packets emits *)

\* all the bytes of the scenario and those of them received so far
WholeStream == scenario.noise \o scenario.frame \o scenario.second
Arrived == SubSeq(WholeStream, 1, Len(WholeStream) - Len(stream))

\* the ways to place the emitted frames in the bytes received: a start offset
\* for each frame, each frame behind the end of the one before it
Placements ==
  {p \in [DOMAIN emitted -> 0..Len(Arrived)] :
     /\ \A j \in DOMAIN emitted :
          /\ p[j] + Len(emitted[j]) <= Len(Arrived)
          /\ Slice(Arrived, p[j], p[j] + Len(emitted[j])) = emitted[j]
     /\ \A j \in DOMAIN emitted :
          j > 1 => p[j - 1] + Len(emitted[j - 1]) <= p[j]}

\* C25: every frame emitted by extract_packets starts with 0xF0, is at least 5
\* bytes long and exactly 5 + (its byte 3) bytes long, and the emitted frames
\* are slices of the bytes received so far that follow one another in the
\* stream without overlapping.
C25_EmittedFramesWellFormed ==
  /\ \A j \in DOMAIN emitted :
       /\ Len(emitted[j]) >= 5
       /\ emitted[j][1] = 240
       /\ Len(emitted[j]) = 5 + emitted[j][4]
  /\ Placements # {}

\* C25 witness: two frames were emitted from a stream that arrived whole
C25_Witness ==
  /\ scenario.kind = "pair" /\ stream = <<>>
  /\ Len(emitted) = 2
  /\ emitted[1] = scenario.frame /\ emitted[2] = scenario.second
  /\ Len(scenario.frame) = 7

\* C26: after every extract_packets call the buffer holds exactly the bytes
\* from the index the scan stopped at onward, whether or not the call returned
\* a packet.
C26_ConsumedBytesDropped ==
  [][stream' # stream =>
       LET chunk == SubSeq(stream, 1, Len(stream) - Len(stream'))
           buf == buffer \o chunk
       IN buffer' = Slice(buf, scan(buf, 0, <<>>).i, Len(buf))]_vars

\* C29: when the stream consists of two complete valid frames back to back,
\* then once all its bytes have been appended, in one chunk or in several, the
\* extract_packets calls have returned exactly those two frames in stream order.
C29_ArrivalOrder ==
  (scenario.kind = "pair" /\ stream = <<>>) =>
    emitted = <<scenario.frame, scenario.second>>

-----------------------------------------------------------------------------
(* Claims about writers racing with disconnect *)

\* C30: a caller of a setter that ends without its frame written, the transport
\* having been released by a concurrent disconnect, ends with
\* DPS150ConnectionError and with no other exception.
C30_RaceFailsWithConnectionError ==
  \A t \in Callers :
    (task[t].op = "set_voltage" /\ task[t].pc = "ret" /\ task[t].sent = <<>>)
      => task[t].res = "DPS150ConnectionError"

-----------------------------------------------------------------------------
(* Claims about the snapshot object *)

\* C22: the session's snapshot changes only when a frame is handled; nothing a
\* listener or a caller of get_all does to the DeviceState object it received
\* changes the snapshot that later listeners and accessors see.
C22_NoMutableAlias ==
  [][state' # state => received' = received + 1]_vars

\* C23: whenever a session starts (the read loop of a newly opened transport
\* starts to run), every snapshot field and every info string holds its
\* default value, whatever an earlier session received.
C23_FreshSnapshotPerSession ==
  [][\A id \in DOMAIN transports :
       (transports[id].reader # "running" /\ transports'[id].reader = "running")
         => (state' = DeviceState /\ info' = DeviceInfo)]_vars

-----------------------------------------------------------------------------
(* Claims about what a frame may change *)

\* the snapshot fields and the info strings that a frame of type ty carries
CarriedFields(ty) ==
  IF ty \in SingleFloatTypes THEN {FieldOfType(ty)}
  ELSE IF ty = 195 THEN {"output_voltage", "output_current", "output_power"}
  ELSE IF ty = 219 THEN {"output_closed"}
  ELSE IF ty = 220 THEN {"protection_state"}
  ELSE IF ty = 221 THEN {"mode"}
  ELSE {}

CarriedInfo(ty) ==
  IF ty = 222 THEN {"model_name"}
  ELSE IF ty = 223 THEN {"hardware_version"}
  ELSE IF ty = 224 THEN {"firmware_version"}
  ELSE {}

\* the value the payload of a frame of type ty carries for field f
CarriedValue(f, ty, data) ==
  IF ty = 195
  THEN (IF f = "output_voltage" THEN SubSeq(data, 1, 4)
        ELSE IF f = "output_current" THEN SubSeq(data, 5, 8)
        ELSE SubSeq(data, 9, 12))
  ELSE IF ty = 219 THEN data[1] = 1
  ELSE IF ty = 220 THEN PROTECTION_STATES[data[1] + 1]
  ELSE IF ty = 221 THEN (IF data[1] = 0 THEN "CC" ELSE "CV")
  ELSE SubSeq(data, 1, 4)

\* C31: after a frame other than the all-state frame, every snapshot field and
\* info string the frame's type code does not carry holds the value it had
\* before the frame, a field that did change holds the value of the payload,
\* and a complete output voltage / current / power frame has set exactly its
\* three fields.
C31_OnlyCarriedFieldsChange ==
  (last.seq > 0 /\ last.type_code # 255) =>
    /\ \A f \in StateFields \ CarriedFields(last.type_code) : state[f] = last.before[f]
    /\ \A f \in CarriedFields(last.type_code) :
         state[f] # last.before[f] => state[f] = CarriedValue(f, last.type_code, last.data)
    /\ \A g \in DOMAIN info \ CarriedInfo(last.type_code) : info[g] = last.info_before[g]
    /\ (last.type_code = 195 /\ Len(last.data) >= 12) =>
         \A f \in CarriedFields(195) : state[f] = CarriedValue(f, 195, last.data)

\* C31 witness: a temperature frame after an all-state frame changed the
\* temperature and left the values of the all-state frame in the other fields
C31_Witness ==
  /\ last.seq = 2 /\ last.type_code = 196
  /\ state["temperature"] = <<44, 0, 64, 65>>
  /\ last.before["temperature"] = <<7, 0, 64, 65>>
  /\ state["input_voltage"] = <<1, 0, 64, 65>>
  /\ state["brightness"] = 7

\* the type codes _parse_packet_data has a branch for, and those of them read
\* as one float
ParsedTypes ==
  {192, 195, 196, 217, 218, 219, 220, 221, 222, 223, 224, 226, 227, 255}

ParsedFloatTypes == {192, 196, 217, 218, 226, 227}

\* a well-formed frame p that yields no field
NoField(p) ==
  /\ ~C5_Malformed(p)
  /\ \/ p[3] \notin ParsedTypes
     \/ p[4] = 0
     \/ p[3] \in ParsedFloatTypes /\ p[4] < 4
     \/ p[3] = 195 /\ p[4] < 12

\* what the frames among packets that are well-formed and yield a field do, one
\* after the other, to the snapshot, the info and the number of listener calls
RECURSIVE FieldFramesOnly(_, _, _)
FieldFramesOnly(packets, cbs, acc) ==
  IF packets = <<>> THEN acc
  ELSE LET p == Head(packets)
       IN IF C5_Malformed(p) \/ NoField(p)
          THEN FieldFramesOnly(Tail(packets), cbs, acc)
          ELSE LET fields == parse_packet_data(p[3], SubSeq(p, 5, 4 + p[4])).result
               IN FieldFramesOnly(Tail(packets), cbs,
                                  [state |-> update_from_dict(acc.state, fields),
                                   info |-> update_info(acc.info, fields),
                                   calls |-> acc.calls + Len(cbs)])

-----------------------------------------------------------------------------
(* Claims about who changes the snapshot *)

\* C33: a step changes the snapshot or the info only if it is a round of the
\* read loop that handled a chunk from the device; no step of a setter, of
\* set_group, get_all, connect's initialisation, on_state_update or the poll
\* task changes a field.
C33_OnlyInboundChangesState ==
  [][(state' # state \/ info' # info) => received' = received + 1]_vars

\* C33 witness: set_voltage has returned on a connected session whose poll task
\* has sent a request, no frame has arrived and the set voltage of the snapshot
\* is still the default
C33_Witness ==
  /\ task["app1"].op = "set_voltage" /\ task["app1"].pc = "ret" /\ task["app1"].res = "ok"
  /\ \E p \in Pollers : task[p].pc = "poll_sleep"
  /\ received = 0
  /\ state["set_voltage"] = Zero
  /\ state = DeviceState /\ info = DeviceInfo

-----------------------------------------------------------------------------
(* Claims about the poll task *)

\* the positions of a poll task inside the write of a request
PollRequesting == {"wait_lock", "wait_tr_lock", "drain", "settle"}

\* C35: a poll task ends only when it was cancelled or when it finds the
\* session not connected; a request of it that fails while the session is
\* connected takes it to the wait of one interval, and when that wait is over
\* on a connected session it issues the next request.
C35_PollSurvivesFailure ==
  [][\A p \in Pollers :
       /\ (task[p].pc # "done" /\ task'[p].pc = "done") =>
            task[p].cancel \/ ~Attached(Session)
       /\ (task[p].pc = "drain" /\ task'[p].pc \notin {"drain", "settle"}
            /\ ~task[p].cancel /\ Attached(Session)) =>
            task'[p].pc = "poll_err_sleep"
       /\ (task[p].pc = "poll_err_sleep" /\ task'[p].pc # "poll_err_sleep"
            /\ ~task[p].cancel /\ Attached(Session)) =>
            task'[p].pc \in PollRequesting /\ task'[p].k = 1]_vars

\* C35 witness: on a connected session a poll task waits out the interval after
\* a request of it has failed
C35_Witness ==
  /\ Attached(Session)
  /\ \E p \in Pollers :
       /\ polling_task = p
       /\ task[p].pc = "poll_err_sleep"
       /\ ~task[p].cancel

-----------------------------------------------------------------------------
(* Claims about connect, disconnect and the tasks of a session *)

ReaderRunning == \E id \in DOMAIN transports : transports[id].reader = "running"

\* C39: when connect() has raised, the session is disconnected: is_connected
\* is false and no read loop is running.
C39_FailedConnectLeavesDisconnected ==
  (task["app1"].op = "connect" /\ task["app1"].pc = "ret" /\ task["app1"].res # "ok")
    => ~Attached(Session) /\ ~ReaderRunning

\* C37: whenever a transport reports connected its read loop is running.
C37_ConnectedImpliesReading ==
  \A id \in DOMAIN transports :
    transports[id].connected => transports[id].reader = "running"

\* disconnect() is being executed by the application task
Disconnecting == task["app1"].op = "disconnect" /\ task["app1"].pc # "ret"

\* disconnect() has returned and no transport is left attached, connected,
\* open or read
Released ==
  /\ task["app1"].op = "disconnect" /\ task["app1"].pc = "ret"
  /\ transport = 0
  /\ \A id \in DOMAIN transports :
       /\ ~transports[id].connected
       /\ transports[id].reader \notin {"running", "cancelled"}
       /\ transports[id].writer # "open"

\* C36: with a device that sends nothing, a disconnect() that was called
\* eventually returns with the transport released.
C36_ShutdownCompletes == Disconnecting ~> Released

\* C36 witness: disconnect() waits for the read loop it has cancelled, while no
\* byte has arrived
C36_Witness ==
  /\ task["app1"].op = "disconnect" /\ task["app1"].pc = "await_reader"
  /\ transports[task["app1"].tr].reader = "cancelled"
  /\ received = 0

\* C40: at most one poll task is alive at any time.
C40_OnePollTask == Cardinality(AlivePollers) <= 1

\* C34: at the moment disconnect() returns, no poll task and no read loop is
\* running.
C34_NothingRunsAfterDisconnect ==
  [][(/\ task["app1"].op = "disconnect"
      /\ task["app1"].pc # "ret" /\ task'["app1"].pc = "ret")
       => /\ \A p \in Pollers : task'[p].pc \in {"unborn", "done"}
          /\ \A id \in DOMAIN transports :
               transports'[id].reader \notin {"running", "cancelled"}]_vars

\* C38: at most one transport is open and at most one read loop runs, and
\* they belong to the transport the session refers to.
C38_OneTransportOneReader ==
  \A id \in DOMAIN transports :
    (transports[id].reader = "running" \/ transports[id].writer = "open") => id = transport

====
